---- MODULE Spec2Model ----
(***************************************************************************)
(* GlowGo backend (glowgo-backend): the preference-gathering conversation  *)
(* (ConversationAgent, PreferenceCrew, QualityAssuranceAgent), the chat     *)
(* endpoint, and the matching pipeline (MatchingAgent, AvailabilityAgent,   *)
(* MatchingCrew) as state machines.                                         *)
(*                                                                         *)
(* Conventions.  A Python Optional is None (<<>>) or Some(v) (<<v>>).      *)
(* Text is a TLA+ string, so that Python's substring test and the regular   *)
(* expressions of the extractors are computed character by character.      *)
(* Money is kept in cents (60 dollars = 6000), dates are ISO strings,       *)
(* times of day are "HH:MM" strings.                                        *)
(***************************************************************************)
EXTENDS Integers, Sequences, FiniteSets, TLC

None == <<>>

Some(v) == <<v>>

Max(a, b) == IF a >= b THEN a ELSE b

Min(a, b) == IF a <= b THEN a ELSE b

(***************************************************************************)
(* Python str operations                                                    *)
(***************************************************************************)

\* kw in s
Contains(kw, s) ==
  \E i \in 1..(Len(s) - Len(kw) + 1) : SubSeq(s, i, i + Len(kw) - 1) = kw

\* any(kw in s for kw in kws), kws a sequence of keywords
ContainsAny(kws, s) == \E k \in 1..Len(kws) : Contains(kws[k], s)

\* s[a:b] with Python's 0-based, end-exclusive, clamped slice indices
Slice(s, a, b) == SubSeq(s, Max(a, 0) + 1, Min(b, Len(s)))

LowerChar(c) ==
  LET up == "ABCDEFGHIJKLMNOPQRSTUVWXYZ"
      lo == "abcdefghijklmnopqrstuvwxyz"
  IN IF Contains(c, up)
       THEN LET i == CHOOSE j \in 1..26 : SubSeq(up, j, j) = c IN SubSeq(lo, i, i)
       ELSE c

RECURSIVE Lower(_)
\* s.lower()
Lower(s) ==
  IF s = "" THEN "" ELSE LowerChar(SubSeq(s, 1, 1)) \o Lower(SubSeq(s, 2, Len(s)))

IsDigit(c) == Len(c) = 1 /\ Contains(c, "0123456789")

IsSpace(c) == c = " "

\* \w of the re module, on the ASCII text of the utterances
IsWordChar(c) ==
  Len(c) = 1 /\ Contains(LowerChar(c), "abcdefghijklmnopqrstuvwxyz0123456789_")

RECURSIVE ParseInt(_)
\* int(s) for a string of decimal digits
ParseInt(s) ==
  IF s = "" THEN 0
  ELSE LET c == SubSeq(s, Len(s), Len(s))
           d == (CHOOSE j \in 1..10 : SubSeq("0123456789", j, j) = c) - 1
       IN 10 * ParseInt(SubSeq(s, 1, Len(s) - 1)) + d

\* float(s) for a match of \d+(?:\.\d{2})?, in cents
ParseAmount(s) ==
  IF Len(s) > 3 /\ SubSeq(s, Len(s) - 2, Len(s) - 2) = "."
    THEN 100 * ParseInt(SubSeq(s, 1, Len(s) - 3)) + ParseInt(SubSeq(s, Len(s) - 1, Len(s)))
    ELSE 100 * ParseInt(s)

\* f"{n:02d}"
TwoDigits(n) ==
  LET ds == "0123456789"
      d(k) == SubSeq(ds, k + 1, k + 1)
  IN IF n < 10 THEN "0" \o d(n)
     ELSE IF n < 100 THEN d(n \div 10) \o d(n % 10)
     ELSE d(n \div 100) \o d((n \div 10) % 10) \o d(n % 10)

(***************************************************************************)
(* Python's re module: a backtracking matcher.  A pattern is a tree:        *)
(*   <<"lit", w>>        the literal text w                                 *)
(*   <<"cls", c>>        one character of class c: "d" is \d, "s" is \s     *)
(*   <<"seq", <<..>>>>   concatenation                                      *)
(*   <<"alt", <<..>>>>   alternation, tried left to right                   *)
(*   <<"rep", r, m, n>>  greedy r{m,n}                                      *)
(*   <<"grp", k, r>>     capturing group number k                           *)
(*   <<"wb">>            \b                                                 *)
(*   <<"la", r>>         lookahead (?=r)                                    *)
(* A match state is [e: next position to read, g: the captured groups].     *)
(* Match returns the match states in the order the backtracking matcher     *)
(* tries them, so the head of the result is what Python reports.            *)
(***************************************************************************)

Lit(w) == <<"lit", w>>

Cls(c) == <<"cls", c>>

Cat(rs) == <<"seq", rs>>

Alt(rs) == <<"alt", rs>>

Rep(r, m, n) == <<"rep", r, m, n>>

Grp(k, r) == <<"grp", k, r>>

\* an upper bound no repetition on a modelled text can reach
Unbounded == 99

Star(r) == Rep(r, 0, Unbounded)

Plus(r) == Rep(r, 1, Unbounded)

Opt(r) == Rep(r, 0, 1)

\* (a|b|...) over literal alternatives
Words(ws) == Alt([k \in 1..Len(ws) |-> Lit(ws[k])])

\* \d+(?:\.\d{2})?
Amount == Cat(<<Plus(Cls("d")), Opt(Cat(<<Lit("."), Rep(Cls("d"), 2, 2)>>))>>)

NoGroups == <<"", "", "">>

RECURSIVE Match(_, _, _), Bind(_, _, _), MatchAlt(_, _, _, _), MatchSeq(_, _, _, _)

\* continue every state of sts with pattern r, keeping the order of preference
Bind(sts, r, s) ==
  IF sts = <<>> THEN <<>> ELSE Match(r, s, Head(sts)) \o Bind(Tail(sts), r, s)

MatchAlt(rs, k, s, st) ==
  IF k > Len(rs) THEN <<>> ELSE Match(rs[k], s, st) \o MatchAlt(rs, k + 1, s, st)

MatchSeq(rs, k, s, sts) ==
  IF k > Len(rs) \/ sts = <<>> THEN sts ELSE MatchSeq(rs, k + 1, s, Bind(sts, rs[k], s))

Match(r, s, st) ==
  LET ch(i) == IF i >= 1 /\ i <= Len(s) THEN SubSeq(s, i, i) ELSE ""
  IN CASE r[1] = "lit" ->
            IF st.e + Len(r[2]) - 1 <= Len(s) /\ SubSeq(s, st.e, st.e + Len(r[2]) - 1) = r[2]
              THEN <<[st EXCEPT !.e = @ + Len(r[2])]>> ELSE <<>>
       [] r[1] = "cls" ->
            IF (r[2] = "d" /\ IsDigit(ch(st.e))) \/ (r[2] = "s" /\ IsSpace(ch(st.e)))
              THEN <<[st EXCEPT !.e = @ + 1]>> ELSE <<>>
       [] r[1] = "seq" -> MatchSeq(r[2], 1, s, <<st>>)
       [] r[1] = "alt" -> MatchAlt(r[2], 1, s, st)
       [] r[1] = "rep" ->
            LET once == IF r[4] = 0 THEN <<>>
                        ELSE SelectSeq(Match(r[2], s, st), LAMBDA t : t.e > st.e)
            IN Bind(once, Rep(r[2], Max(r[3] - 1, 0), r[4] - 1), s)
                 \o (IF r[3] = 0 THEN <<st>> ELSE <<>>)
       [] r[1] = "grp" ->
            LET in == Match(r[3], s, st)
            IN [i \in 1..Len(in) |->
                  [in[i] EXCEPT !.g[r[2]] = SubSeq(s, st.e, in[i].e - 1)]]
       [] r[1] = "wb" ->
            IF IsWordChar(ch(st.e - 1)) # IsWordChar(ch(st.e)) THEN <<st>> ELSE <<>>
       [] r[1] = "la" -> IF Match(r[2], s, st) # <<>> THEN <<st>> ELSE <<>>

\* pattern.match at position i: None, or Some of the preferred match state
MatchAt(r, s, i) ==
  LET ms == Match(r, s, [e |-> i, g |-> NoGroups])
  IN IF ms = <<>> THEN None ELSE Some(Head(ms))

\* re.search: None, or Some([b: start, e: end, g: groups]) of the leftmost match
re_search(r, s) ==
  LET hits == {i \in 1..(Len(s) + 1) : MatchAt(r, s, i) # None}
  IN IF hits = {} THEN None
     ELSE LET b == CHOOSE i \in hits : \A j \in hits : i <= j
              m == MatchAt(r, s, b)[1]
          IN Some([b |-> b, e |-> m.e, g |-> m.g])

RECURSIVE FindFrom(_, _, _)
FindFrom(r, s, i) ==
  IF i > Len(s) THEN <<>>
  ELSE LET m == MatchAt(r, s, i)
       IN IF m = None THEN FindFrom(r, s, i + 1)
          ELSE <<m[1].g[1]>> \o FindFrom(r, s, Max(m[1].e, i + 1))

\* re.findall for a pattern with one group: the group's text of each match
re_findall(r, s) == FindFrom(r, s, 1)

RECURSIVE SubFrom(_, _, _, _, _, _)
SubFrom(r, grp, post, s, subject, i) ==
  IF i > Len(s) THEN ""
  ELSE LET m == MatchAt(r, subject, i)
       IN IF m = None \/ m[1].e = i
            THEN SubSeq(s, i, i) \o SubFrom(r, grp, post, s, subject, i + 1)
            ELSE (IF grp = 0 THEN "" ELSE m[1].g[grp]) \o post
                   \o SubFrom(r, grp, post, s, subject, m[1].e)

\* re.sub(r, repl, s, flags=re.IGNORECASE) for lower-case patterns; the
\* replacement is group grp (0 for none) followed by the text post
re_sub(r, grp, post, s) == SubFrom(r, grp, post, s, Lower(s), 1)

(***************************************************************************)
(* conversation_tools.py: the number-word tables, as (key, value) pairs in  *)
(* the insertion order of the Python dicts                                  *)
(***************************************************************************)

time_word_to_num ==
  <<
     <<"zero", "0">>, <<"one", "1">>, <<"two", "2">>, <<"three", "3">>,
     <<"four", "4">>, <<"five", "5">>, <<"six", "6">>, <<"seven", "7">>,
     <<"eight", "8">>, <<"nine", "9">>, <<"ten", "10">>, <<"eleven", "11">>,
     <<"twelve", "12">>, <<"thirteen", "13">>, <<"fourteen", "14">>,
     <<"fifteen", "15">>, <<"sixteen", "16">>, <<"seventeen", "17">>,
     <<"eighteen", "18">>, <<"nineteen", "19">>, <<"twenty", "20">>,
     <<"twenty-one", "21">>, <<"twenty-two", "22">>, <<"twenty-three", "23">>,
     <<"twenty-four", "24">>, <<"twenty-five", "25">>, <<"twenty-six", "26">>,
     <<"twenty-seven", "27">>, <<"twenty-eight", "28">>,
     <<"twenty-nine", "29">>, <<"thirty", "30">>, <<"thirty-one", "31">>,
     <<"thirty-two", "32">>, <<"thirty-three", "33">>, <<"thirty-four", "34">>,
     <<"thirty-five", "35">>, <<"thirty-six", "36">>, <<"thirty-seven", "37">>,
     <<"thirty-eight", "38">>, <<"thirty-nine", "39">>, <<"forty", "40">>,
     <<"forty-one", "41">>, <<"forty-two", "42">>, <<"forty-three", "43">>,
     <<"forty-four", "44">>, <<"forty-five", "45">>, <<"forty-six", "46">>,
     <<"forty-seven", "47">>, <<"forty-eight", "48">>, <<"forty-nine", "49">>,
     <<"fifty", "50">>, <<"fifty-one", "51">>, <<"fifty-two", "52">>,
     <<"fifty-three", "53">>, <<"fifty-four", "54">>, <<"fifty-five", "55">>,
     <<"fifty-six", "56">>, <<"fifty-seven", "57">>, <<"fifty-eight", "58">>,
     <<"fifty-nine", "59">>, <<"sixty", "60">>, <<"sixty-one", "61">>,
     <<"sixty-two", "62">>, <<"sixty-three", "63">>, <<"sixty-four", "64">>,
     <<"sixty-five", "65">>, <<"sixty-six", "66">>, <<"sixty-seven", "67">>,
     <<"sixty-eight", "68">>, <<"sixty-nine", "69">>, <<"seventy", "70">>,
     <<"seventy-one", "71">>, <<"seventy-two", "72">>,
     <<"seventy-three", "73">>, <<"seventy-four", "74">>,
     <<"seventy-five", "75">>, <<"seventy-six", "76">>,
     <<"seventy-seven", "77">>, <<"seventy-eight", "78">>,
     <<"seventy-nine", "79">>, <<"eighty", "80">>, <<"eighty-one", "81">>,
     <<"eighty-two", "82">>, <<"eighty-three", "83">>, <<"eighty-four", "84">>,
     <<"eighty-five", "85">>, <<"eighty-six", "86">>, <<"eighty-seven", "87">>,
     <<"eighty-eight", "88">>, <<"eighty-nine", "89">>, <<"ninety", "90">>,
     <<"ninety-one", "91">>, <<"ninety-two", "92">>, <<"ninety-three", "93">>,
     <<"ninety-four", "94">>, <<"ninety-five", "95">>, <<"ninety-six", "96">>,
     <<"ninety-seven", "97">>, <<"ninety-eight", "98">>,
     <<"ninety-nine", "99">>, <<"hundred", "100">>, <<"thousand", "1000">>
  >>

minute_words ==
  <<
     <<"oh five", "05">>, <<"o five", "05">>, <<"five", "05">>,
     <<"ten", "10">>, <<"fifteen", "15">>, <<"twenty", "20">>,
     <<"thirty", "30">>, <<"forty", "40">>, <<"forty-five", "45">>,
     <<"fifty", "50">>, <<"zero", "00">>, <<"hundred", "00">>
  >>

\* {**a, **b}: the keys of a in order, then the new keys of b; b's value wins
DictMerge(a, b) ==
  LET inB(k) == \E j \in 1..Len(b) : b[j][1] = k
      valB(k) == b[CHOOSE j \in 1..Len(b) : b[j][1] = k][2]
      first == [i \in 1..Len(a) |->
                  <<a[i][1], IF inB(a[i][1]) THEN valB(a[i][1]) ELSE a[i][2]>>]
      rest == SelectSeq(b, LAMBDA p : \A i \in 1..Len(a) : a[i][1] # p[1])
  IN first \o rest

numbers_dicts == DictMerge(minute_words, time_word_to_num)

\* r"\b" + word + r"\b"
WordPattern(word) == Cat(<<<<"wb">>, Lit(word), <<"wb">>>>)

RECURSIVE SubWords(_, _)
SubWords(dict, text) ==
  IF dict = <<>> THEN text
  ELSE SubWords(Tail(dict), re_sub(WordPattern(dict[1][1]), 0, dict[1][2], text))

\* for word, num in dict.items(): text = re.sub(r"\bword\b", num, text, IGNORECASE)
\* Substituting digits creates no new word, so the loop is run over the entries
\* whose word occurs in the text, in the order of the dict.
ConvertWords(dict, text) ==
  SubWords(SelectSeq(dict, LAMBDA p : Contains(p[1], Lower(text))), text)

RECURSIVE SeqMin(_), SeqMax(_)
SeqMin(ns) == IF Len(ns) = 1 THEN ns[1] ELSE Min(ns[1], SeqMin(Tail(ns)))

SeqMax(ns) == IF Len(ns) = 1 THEN ns[1] ELSE Max(ns[1], SeqMax(Tail(ns)))

(***************************************************************************)
(* PreferenceExtractorTool._extract_budget: the budget bounds an utterance  *)
(* yields, each None or Some(cents)                                         *)
(***************************************************************************)
\* bounds in which "around" stands for 10% either way
budget_bounds_narrow(text_converted, text_lower, up_to_pattern, range_match, all_amounts) ==
  LET min_val == ParseAmount(range_match[1].g[1])
      max_val == ParseAmount(range_match[1].g[2])
      match_start == range_match[1].b - 1
      match_end == range_match[1].e - 1
      text_before == Slice(text_lower, match_start - 15, match_start)
      text_after == Slice(text_lower, match_end, match_end + 10)
      time_indicators ==
        <<"am", "pm", "between", "available", "open", "hours", "time", "o'clock", "oclock">>
      has_time_context ==
        \E k \in 1..Len(time_indicators) :
          Contains(time_indicators[k], text_before) \/ Contains(time_indicators[k], text_after)
      is_small_range == min_val < 2400 /\ max_val < 2400
      has_budget_context ==
        ContainsAny(<<"budget", "price", "cost", "dollar", "$", "pay", "spend", "afford">>,
                    text_lower)
      is_likely_budget_range == max_val >= 2500
      is_likely_time_range ==
        \/ is_small_range /\ has_time_context
        \/ is_small_range /\ ~has_budget_context /\ ~is_likely_budget_range
      numbers == [k \in 1..Len(all_amounts) |-> ParseAmount(all_amounts[k])]
      amount == numbers[1]
  IN IF up_to_pattern # None
       THEN [budget_min |-> Some(0),
             budget_max |-> Some(ParseAmount(up_to_pattern[1].g[1]))]
     ELSE IF range_match # None /\ ~is_likely_time_range
       THEN [budget_min |-> Some(Min(min_val, max_val)),
             budget_max |-> Some(Max(min_val, max_val))]
     ELSE IF all_amounts = <<>>
       THEN [budget_min |-> None, budget_max |-> None]
     ELSE IF Len(numbers) >= 2 /\ (Contains("-", text_converted) \/ Contains("to", text_lower))
       THEN [budget_min |-> Some(SeqMin(numbers)), budget_max |-> Some(SeqMax(numbers))]
     ELSE IF ContainsAny(<<"around", "about", "approximately">>, text_lower)
       THEN [budget_min |-> Some((amount * 9) \div 10),
             budget_max |-> Some((amount * 11) \div 10)]
     ELSE IF ContainsAny(<<"up to", "max", "maximum", "under", "less than", "below",
                           "not more than">>, text_lower)
       THEN [budget_min |-> Some(0), budget_max |-> Some(amount)]
     ELSE IF ContainsAny(<<"at least", "min", "minimum", "over", "more than", "above">>,
                         text_lower)
       THEN [budget_min |-> Some(amount), budget_max |-> None]
     ELSE [budget_min |-> None, budget_max |-> Some(amount)]

\* the bounds decided from the patterns found in the text (326-423)
budget_bounds(text_converted, text_lower, up_to_pattern, range_match, all_amounts) ==
  LET min_val == ParseAmount(range_match[1].g[1])
      max_val == ParseAmount(range_match[1].g[2])
      match_start == range_match[1].b - 1
      match_end == range_match[1].e - 1
      text_before == Slice(text_lower, match_start - 15, match_start)
      text_after == Slice(text_lower, match_end, match_end + 10)
      time_indicators ==
        <<"am", "pm", "between", "available", "open", "hours", "time", "o'clock", "oclock">>
      has_time_context ==
        \E k \in 1..Len(time_indicators) :
          Contains(time_indicators[k], text_before) \/ Contains(time_indicators[k], text_after)
      is_small_range == min_val < 2400 /\ max_val < 2400
      has_budget_context ==
        ContainsAny(<<"budget", "price", "cost", "dollar", "$", "pay", "spend", "afford">>,
                    text_lower)
      is_likely_budget_range == max_val >= 2500
      is_likely_time_range ==
        \/ is_small_range /\ has_time_context
        \/ is_small_range /\ ~has_budget_context /\ ~is_likely_budget_range
      numbers == [k \in 1..Len(all_amounts) |-> ParseAmount(all_amounts[k])]
      amount == numbers[1]
  IN IF up_to_pattern # None
       THEN [budget_min |-> Some(0),
             budget_max |-> Some(ParseAmount(up_to_pattern[1].g[1]))]
     ELSE IF range_match # None /\ ~is_likely_time_range
       THEN [budget_min |-> Some(Min(min_val, max_val)),
             budget_max |-> Some(Max(min_val, max_val))]
     ELSE IF all_amounts = <<>>
       THEN [budget_min |-> None, budget_max |-> None]
     ELSE IF Len(numbers) >= 2 /\ (Contains("-", text_converted) \/ Contains("to", text_lower))
       THEN [budget_min |-> Some(SeqMin(numbers)), budget_max |-> Some(SeqMax(numbers))]
     ELSE IF ContainsAny(<<"around", "about", "approximately">>, text_lower)
       THEN [budget_min |-> Some((amount * 8) \div 10),
             budget_max |-> Some((amount * 12) \div 10)]
     ELSE IF ContainsAny(<<"up to", "max", "maximum", "under", "less than", "below",
                           "not more than">>, text_lower)
       THEN [budget_min |-> Some(0), budget_max |-> Some(amount)]
     ELSE IF ContainsAny(<<"at least", "min", "minimum", "over", "more than", "above">>,
                         text_lower)
       THEN [budget_min |-> Some(amount), budget_max |-> None]
     ELSE [budget_min |-> None, budget_max |-> Some(amount)]

\* the patterns searched in the converted text (324-380)
budget_patterns(text_converted, text_lower) ==
  LET ws == Star(Cls("s"))
  IN budget_bounds(
       text_converted, text_lower,
       re_search(Cat(<<Alt(<<Lit("up to"), Lit("under"), Lit("less than"), Lit("below"),
                             Lit("not more than"), Cat(<<Lit("max"), Opt(Lit("imum"))>>)>>),
                       ws, Opt(Lit("$")), ws, Grp(1, Amount)>>), text_lower),
       re_search(Cat(<<Grp(1, Amount), ws, Alt(<<Lit("-"), Lit("to")>>), ws,
                       Grp(2, Amount)>>), text_lower),
       re_findall(Cat(<<Lit("$"), ws, Grp(1, Amount)>>), text_converted)
         \o re_findall(Cat(<<Grp(1, Amount), ws, Lit("$")>>), text_converted)
         \o re_findall(Cat(<<Grp(1, Amount), ws,
                             Alt(<<Cat(<<Lit("dollar"), Opt(Lit("s"))>>),
                                   Cat(<<Lit("buck"), Opt(Lit("s"))>>), Lit("budget")>>)>>),
                       text_lower))

\* text_lower = text_converted.lower()
budget_of_converted(text_converted) == budget_patterns(text_converted, Lower(text_converted))

extract_budget(text) == budget_of_converted(ConvertWords(numbers_dicts, text))

(***************************************************************************)
(* The clock.  datetime.now() is [day, hour]: day counts the days since     *)
(* Monday 2025-11-03, so that now.weekday() is day % 7 (0 = Monday).        *)
(***************************************************************************)

weekday(day) == day % 7

\* date.isoformat() / strftime("%Y-%m-%d"), for the days of November and
\* December 2025
isoformat(day) ==
  IF day + 3 <= 30 THEN "2025-11-" \o TwoDigits(day + 3)
  ELSE "2025-12-" \o TwoDigits(day + 3 - 30)

\* datetime.strptime(s, "%Y-%m-%d").date(): the inverse of isoformat
strptime(s) ==
  LET month == ParseInt(SubSeq(s, 6, 7))
      dom == ParseInt(SubSeq(s, 9, 10))
  IN IF month = 11 THEN dom - 3 ELSE dom + 30 - 3

days_of_week ==
  <<"monday", "tuesday", "wednesday", "thursday", "friday", "saturday", "sunday">>

(***************************************************************************)
(* PreferenceExtractorTool._extract_urgency: None or Some(category)         *)
(***************************************************************************)
extract_urgency(text) ==
  LET text_lower == Lower(text)
      has_specific_time ==
        re_search(Cat(<<Rep(Cls("d"), 1, 2), Star(Cls("s")),
                        Alt(<<Lit("am"), Lit("pm"),
                              Cat(<<Lit(":"), Rep(Cls("d"), 2, 2)>>)>>)>>),
                  text_lower) # None
      has_time_constraint == ContainsAny(<<"before", "after", "by">>, text_lower)
  IN IF ContainsAny(<<"asap", "urgent", "now", "immediately", "emergency">>, text_lower)
       THEN Some("ASAP")
     ELSE IF ContainsAny(<<"today", "this afternoon", "tonight", "this evening">>, text_lower)
       THEN (IF has_specific_time THEN None ELSE Some("today"))
     ELSE IF ContainsAny(<<"tomorrow", "tmr">>, text_lower)
       THEN (IF has_specific_time \/ has_time_constraint THEN None ELSE Some("week"))
     ELSE IF ContainsAny(days_of_week, text_lower)
       THEN (IF has_specific_time \/ has_time_constraint THEN None ELSE Some("week"))
     ELSE IF ContainsAny(<<"this week", "next week", "next few days", "soon", "weekend">>,
                         text_lower)
       THEN (IF has_specific_time \/ has_time_constraint THEN None ELSE Some("week"))
     ELSE IF ContainsAny(<<"flexible", "whenever", "anytime", "no rush", "any time">>,
                         text_lower)
       THEN Some("flexible")
     ELSE None

RECURSIVE SubSpokenTimes(_, _)
\* re.sub(r'\bhour\s+minute\b(?=\s*(am|pm))', hour_num + ':' + minute_num, text)
\* for each pair <<hour entry, minute entry>> of pairs, in order
SubSpokenTimes(pairs, text) ==
  IF pairs = <<>> THEN text
  ELSE LET h == pairs[1][1]
           m == pairs[1][2]
           pattern == Cat(<<<<"wb">>, Lit(h[1]), Plus(Cls("s")), Lit(m[1]), <<"wb">>,
                            <<"la", Cat(<<Star(Cls("s")), Words(<<"am", "pm">>)>>)>>>>)
       IN SubSpokenTimes(Tail(pairs), re_sub(pattern, 0, h[2] \o ":" \o m[2], text))

RECURSIVE SubSpokenHours(_, _)
\* re.sub(r'\bword\b(?=\s*(am|pm|o\'clock|oclock))', num, text) for each entry
SubSpokenHours(dict, text) ==
  IF dict = <<>> THEN text
  ELSE LET pattern == Cat(<<<<"wb">>, Lit(dict[1][1]), <<"wb">>,
                            <<"la", Cat(<<Star(Cls("s")),
                                          Words(<<"am", "pm", "o'clock", "oclock">>)>>)>>>>)
       IN SubSpokenHours(Tail(dict), re_sub(pattern, 0, dict[1][2], text))

\* the conversion of spoken times (conversation_tools.py 528-561); as in
\* ConvertWords, the loops run over the words that occur in the text
text_with_time_numbers(text_lower) ==
  LET occurs(p) == Contains(p[1], text_lower)
      hours == SelectSeq(time_word_to_num, occurs)
      minutes == SelectSeq(minute_words, occurs)
      pairs == [k \in 1..(Len(hours) * Len(minutes)) |->
                  <<hours[((k - 1) \div Len(minutes)) + 1],
                    minutes[((k - 1) % Len(minutes)) + 1]>>]
      spoken == SubSpokenHours(hours, SubSpokenTimes(pairs, text_lower))
  IN re_sub(Cat(<<Grp(1, Rep(Cls("d"), 1, 2)), Star(Cls("s")),
                  Words(<<"o'clock", "oclock">>)>>), 1, ":00", spoken)

\* the hour of a 12-hour clock reading, as the extractors convert it
To24(hour, ampm) ==
  IF ampm = "pm" /\ hour # 12 THEN hour + 12
  ELSE IF ampm = "am" /\ hour = 12 THEN 0
  ELSE hour

\* (\d{1,2}):(\d{2})\s*(am|pm)
TimeAmPmPattern ==
  Cat(<<Grp(1, Rep(Cls("d"), 1, 2)), Lit(":"), Grp(2, Rep(Cls("d"), 2, 2)),
        Star(Cls("s")), Grp(3, Words(<<"am", "pm">>))>>)

\* the time_patterns loop of _extract_datetime_details (565-608):
\* None or Some("HH:MM")
extract_time(text) ==
  LET m1 == re_search(TimeAmPmPattern, text)
      m2 == re_search(Cat(<<Grp(1, Rep(Cls("d"), 1, 2)), Star(Cls("s")),
                            Grp(2, Words(<<"am", "pm">>))>>), text)
      m3 == re_search(Cat(<<Grp(1, Rep(Cls("d"), 1, 2)), Lit(":"),
                            Grp(2, Rep(Cls("d"), 2, 2))>>), text)
      hhmm(hour, minute) == Some(TwoDigits(hour) \o ":" \o TwoDigits(minute))
  IN IF m1 # None
       THEN hhmm(To24(ParseInt(m1[1].g[1]), m1[1].g[3]), ParseInt(m1[1].g[2]))
     ELSE IF m2 # None
       THEN hhmm(To24(ParseInt(m2[1].g[1]), m2[1].g[2]), 0)
     ELSE IF m3 # None /\ ParseInt(m3[1].g[1]) <= 23 /\ ParseInt(m3[1].g[2]) <= 59
       THEN hhmm(ParseInt(m3[1].g[1]), ParseInt(m3[1].g[2]))
     ELSE None

\* a resolution in which "next" names the coming occurrence of a day that is
\* still ahead in the week
extract_days_ahead_coming(text_lower, now) ==
  LET current_weekday == weekday(now.day)
      is_next == Contains("next", text_lower)
      named == {k \in 1..7 : Contains(days_of_week[k], text_lower)}
      day_num == (CHOOSE k \in named : \A j \in named : k <= j) - 1
      days_ahead == day_num - current_weekday
  IN IF named # {}
       THEN Some(IF is_next /\ days_ahead <= 0 THEN days_ahead + 7
                 ELSE IF days_ahead < 0 THEN days_ahead + 7
                 ELSE IF days_ahead = 0
                   THEN (IF Contains("before", text_lower) \/ Contains("by", text_lower)
                           THEN 0 ELSE 7)
                 ELSE days_ahead)
     ELSE None

\* the date branch of _extract_datetime_details (610-715): None or Some(days
\* from now.date() to the preferred date)
extract_days_ahead(text_lower, now) ==
  LET current_weekday == weekday(now.day)
      is_next == Contains("next", text_lower)
      named == {k \in 1..7 : Contains(days_of_week[k], text_lower)}
      day_num == (CHOOSE k \in named : \A j \in named : k <= j) - 1
      days_ahead == day_num - current_weekday
  IN IF Contains("today", text_lower) THEN Some(0)
     ELSE IF Contains("tomorrow", text_lower) \/ Contains("tmr", text_lower) THEN Some(1)
     ELSE IF Contains("weekend", text_lower)
       THEN Some(IF current_weekday <= 4
                   THEN (5 - current_weekday) + (IF is_next THEN 7 ELSE 0)
                 ELSE IF current_weekday = 5 THEN (IF is_next THEN 7 ELSE 0)
                 ELSE (IF is_next THEN 13 ELSE 6))
     ELSE IF Contains("end of", text_lower) /\ Contains("week", text_lower)
       THEN Some(IF (4 - current_weekday) % 7 = 0 /\ now.hour >= 17 THEN 7
                 ELSE (4 - current_weekday) % 7)
     ELSE IF Contains("next week", text_lower) /\ named = {}
       THEN Some(IF (7 - current_weekday) % 7 = 0 THEN 7 ELSE (7 - current_weekday) % 7)
     ELSE IF named # {}
       THEN Some(IF is_next THEN days_ahead + 7
                 ELSE IF days_ahead < 0 THEN days_ahead + 7
                 ELSE IF days_ahead = 0
                   THEN (IF Contains("before", text_lower) \/ Contains("by", text_lower)
                           THEN 0 ELSE 7)
                 ELSE days_ahead)
     ELSE None

(***************************************************************************)
(* PreferenceExtractorTool._extract_datetime_details                        *)
(***************************************************************************)
extract_datetime_details(text, now) ==
  LET text_lower == Lower(text)
      ahead == extract_days_ahead(text_lower, now)
  IN [preferred_date |-> IF ahead = None THEN None ELSE Some(isoformat(now.day + ahead[1])),
      preferred_time |-> extract_time(text_with_time_numbers(text_lower)),
      time_constraint |->
        IF Contains("before", text_lower) THEN Some("before")
        ELSE IF Contains("after", text_lower) THEN Some("after")
        ELSE IF Contains("by", text_lower) THEN Some("by")
        ELSE None]

\* PreferenceExtractorTool._extract_artisan_preference
extract_artisan_preference(text) ==
  LET text_lower == Lower(text)
      female == Contains("female", text_lower) \/ Contains("woman", text_lower)
      male == Contains("male", text_lower)
                \/ (Contains("man", text_lower) /\ ~Contains("female", text_lower))
      experienced ==
        ContainsAny(<<"experienced", "senior", "expert", "professional">>, text_lower)
      preferences == (IF female THEN <<"female">> ELSE <<>>)
                       \o (IF male THEN <<"male">> ELSE <<>>)
                       \o (IF experienced THEN <<"experienced">> ELSE <<>>)
      joined == IF Len(preferences) = 1 THEN preferences[1]
                ELSE IF Len(preferences) = 2 THEN preferences[1] \o " " \o preferences[2]
                ELSE preferences[1] \o " " \o preferences[2] \o " " \o preferences[3]
  IN IF ContainsAny(<<"open", "anyone", "no preference", "any">>, text_lower)
       THEN Some("open to anyone")
     ELSE IF preferences = <<>> THEN None
     ELSE Some(joined)

\* {**place_keywords_ma, **place_keywords_ny}: <<keyword, place name, city>>
all_places ==
  << <<"mit station", "MIT station", "Cambridge, MA">>,
     <<"mit subway", "MIT station", "Cambridge, MA">>,
     <<"kendall station", "Kendall/MIT station", "Cambridge, MA">>,
     <<"kendall square", "Kendall Square", "Cambridge, MA">>,
     <<"harvard square", "Harvard Square", "Cambridge, MA">>,
     <<"harvard station", "Harvard station", "Cambridge, MA">>,
     <<"central square", "Central Square", "Cambridge, MA">>,
     <<"porter square", "Porter Square", "Cambridge, MA">>,
     <<"porter station", "Porter station", "Cambridge, MA">>,
     <<"davis square", "Davis Square", "Somerville, MA">>,
     <<"park street", "Park Street station", "Boston, MA">>,
     <<"downtown crossing", "Downtown Crossing", "Boston, MA">>,
     <<"south station", "South Station", "Boston, MA">>,
     <<"north station", "North Station", "Boston, MA">>,
     <<"back bay station", "Back Bay station", "Boston, MA">>,
     <<"copley square", "Copley Square", "Boston, MA">>,
     <<"copley station", "Copley station", "Boston, MA">>,
     <<"prudential", "Prudential Center", "Boston, MA">>,
     <<"fenway park", "Fenway Park", "Boston, MA">>,
     <<"newbury street", "Newbury Street", "Boston, MA">>,
     <<"times square", "Times Square", "New York, NY">>,
     <<"grand central", "Grand Central", "New York, NY">>,
     <<"penn station", "Penn Station", "New York, NY">>,
     <<"union square", "Union Square", "New York, NY">>,
     <<"columbus circle", "Columbus Circle", "New York, NY">>,
     <<"rockefeller", "Rockefeller Center", "New York, NY">>,
     <<"central park", "Central Park", "New York, NY">>,
     <<"brooklyn bridge", "Brooklyn Bridge", "New York, NY">>,
     <<"world trade", "World Trade Center", "New York, NY">> >>

boston_keywords ==
  <<"boston", "back bay", "south end", "north end", "beacon hill", "downtown boston",
    "fenway", "allston", "brighton", "jamaica plain", "roxbury", "dorchester", "southie",
    "south boston", "charlestown", "brookline", "newton", "somerville">>

cambridge_ma_keywords ==
  <<"harvard square", "central square", "kendall square", "porter square", "davis square",
    "inman square", "mit", "cambridge ma", "cambridge, ma", "cambridge massachusetts">>

nyc_keywords ==
  <<"new york", "nyc", "manhattan", "brooklyn", "queens", "bronx", "staten island",
    "harlem", "soho", "tribeca", "chelsea", "greenwich village", "east village",
    "west village", "midtown", "upper east side", "upper west side", "lower east side",
    "williamsburg", "bushwick", "astoria", "flushing", "dumbo", "times square",
    "wall street", "flatiron", "noho", "nolita">>

\* the state context test of _extract_location (828): a substring test
found_ma_context(text_lower) == ContainsAny(<<"ma", "massachusetts", "mass">>, text_lower)

(***************************************************************************)
(* PreferenceExtractorTool._extract_location: None, Some(served location)   *)
(* or Some("AMBIGUOUS:...")                                                 *)
(***************************************************************************)
extract_location(text) ==
  LET text_lower == Lower(text)
      hits == {k \in 1..Len(all_places) : Contains(all_places[k][1], text_lower)}
      \* sorted(keys, key=len, reverse=True) is stable: the longest keyword
      \* wins, and among equally long ones the first of the dict
      best == CHOOSE k \in hits :
                \A j \in hits : \/ Len(all_places[k][1]) > Len(all_places[j][1])
                                \/ Len(all_places[k][1]) = Len(all_places[j][1]) /\ k <= j
      found_boston == ContainsAny(boston_keywords, text_lower)
      found_cambridge == Contains("cambridge", text_lower)
      found_cambridge_ma == ContainsAny(cambridge_ma_keywords, text_lower)
      found_nyc == ContainsAny(nyc_keywords, text_lower)
      found_ma == found_ma_context(text_lower)
      found_ny_context == ContainsAny(<<"ny", "new york">>, text_lower)
      found_uk_context == ContainsAny(<<"uk", "england", "british">>, text_lower)
      area == found_boston \/ found_cambridge_ma \/ (found_cambridge /\ found_ma)
      locations ==
        (IF area /\ found_boston THEN <<"Boston, MA">> ELSE <<>>)
          \o (IF area /\ (found_cambridge_ma \/ (found_cambridge /\ (found_ma \/ found_boston)))
                THEN <<"Cambridge, MA">> ELSE <<>>)
          \o (IF found_nyc THEN <<"New York, NY">> ELSE <<>>)
      joined == IF Len(locations) = 2 THEN locations[1] \o "/" \o locations[2]
                ELSE locations[1] \o "/" \o locations[2] \o "/" \o locations[3]
  IN IF hits # {} THEN Some(all_places[best][2] \o ", " \o all_places[best][3])
     ELSE IF Len(locations) > 1 THEN Some(joined)
     ELSE IF Len(locations) = 1 THEN Some(locations[1])
     ELSE IF found_cambridge /\ ~found_cambridge_ma /\ ~found_ma /\ ~found_boston
       THEN (IF found_uk_context THEN Some("AMBIGUOUS:cambridge_uk")
             ELSE Some("AMBIGUOUS:cambridge"))
     ELSE IF found_ma /\ ~found_nyc THEN Some("Boston, MA")
     ELSE IF found_ny_context /\ ~found_boston /\ ~found_cambridge THEN Some("New York, NY")
     ELSE IF ContainsAny(<<"either", "both", "anywhere", "any area", "doesn't matter">>,
                         text_lower)
       THEN Some("Boston, MA/Cambridge, MA")
     ELSE None

\* IntentParserTool.execute: the category table, confidence in thousandths
categories ==
  << [category |-> "haircut", exact |-> <<"haircut", "hair cut">>,
      partial |-> <<"cut", "trim", "barber", "stylist", "hair style">>, confidence |-> 950],
     [category |-> "nails", exact |-> <<"nails", "manicure", "pedicure">>,
      partial |-> <<"nail art", "gel nails", "mani", "pedi">>, confidence |-> 950],
     [category |-> "massage", exact |-> <<"massage">>,
      partial |-> <<"deep tissue", "swedish", "hot stone", "body work", "rub">>,
      confidence |-> 900],
     [category |-> "spa", exact |-> <<"spa", "spa day">>,
      partial |-> <<"spa treatment", "relaxation", "pamper">>, confidence |-> 850],
     [category |-> "facial", exact |-> <<"facial", "face treatment">>,
      partial |-> <<"skincare", "skin care", "face care">>, confidence |-> 900],
     [category |-> "waxing", exact |-> <<"waxing", "wax">>,
      partial |-> <<"hair removal", "brazilian", "bikini wax">>, confidence |-> 900],
     [category |-> "makeup", exact |-> <<"makeup", "make up">>,
      partial |-> <<"cosmetics", "beauty makeup", "glam">>, confidence |-> 900],
     [category |-> "cleaning", exact |-> <<"cleaning", "house cleaning">>,
      partial |-> <<"clean", "maid", "housekeeping">>, confidence |-> 850] >>

RECURSIVE ParseIntentFrom(_, _, _, _)
\* the loop over the categories: an exact keyword returns at once, a partial
\* keyword replaces the best match when the category's confidence is higher
ParseIntentFrom(k, message, best_match, best_confidence) ==
  IF k > Len(categories) THEN best_match
  ELSE LET c == categories[k]
       IN IF ContainsAny(c.exact, message) THEN Some(c.category)
          ELSE IF ContainsAny(c.partial, message) /\ c.confidence > best_confidence
            THEN ParseIntentFrom(k + 1, message, Some(c.category), (c.confidence * 8) \div 10)
          ELSE ParseIntentFrom(k + 1, message, best_match, best_confidence)

\* IntentParserTool.execute: the service type of the message, or None
parse_intent(message) ==
  IF message = "" THEN None ELSE ParseIntentFrom(1, Lower(message), None, 0)

(***************************************************************************)
(* The preference record: a dict whose absent keys read as None             *)
(***************************************************************************)

EmptyPreferences ==
  [service_type |-> None, budget_min |-> None, budget_max |-> None,
   time_urgency |-> None, artisan_preference |-> None, special_notes |-> None,
   preferred_date |-> None, preferred_time |-> None, time_constraint |-> None,
   location |-> None]

\* bool(v) of an Optional number / an Optional string
TruthyNum(o) == o # None /\ o[1] # 0

TruthyStr(o) == o # None /\ o[1] # ""

\* a or b, for Optional numbers
OrNum(a, b) == IF TruthyNum(a) THEN a ELSE b

\* ", ".join(fields)
RECURSIVE JoinComma(_)
JoinComma(fields) ==
  IF fields = <<>> THEN ""
  ELSE IF Len(fields) = 1 THEN fields[1]
  ELSE fields[1] \o ", " \o JoinComma(Tail(fields))

\* a detector that takes the provider preference for a required field
readiness_detector_strict(prefs) ==
  [ready_to_match |-> FALSE,
   missing_fields |-> IF TruthyStr(prefs.artisan_preference) THEN <<>>
                      ELSE <<"artisan_preference">>]

\* a detector that takes only the urgency for time information
readiness_detector_urgency(prefs) ==
  LET missing_fields ==
        (IF TruthyStr(prefs.service_type) THEN <<>> ELSE <<"service_type">>)
          \o (IF TruthyNum(OrNum(prefs.budget_min, prefs.budget_max))
                THEN <<>> ELSE <<"budget">>)
          \o (IF TruthyStr(prefs.time_urgency) THEN <<>> ELSE <<"time_info">>)
          \o (IF TruthyStr(prefs.location) THEN <<>> ELSE <<"location">>)
  IN [ready_to_match |-> missing_fields = <<>>, missing_fields |-> missing_fields]

(***************************************************************************)
(* ReadinessDetectorTool.execute: [ready_to_match, missing_fields]          *)
(***************************************************************************)
readiness_detector(prefs) ==
  LET has_time_info ==
        \/ TruthyStr(prefs.time_urgency) \/ TruthyStr(prefs.preferred_date)
        \/ TruthyStr(prefs.preferred_time) \/ TruthyStr(prefs.time_constraint)
      missing_fields ==
        (IF TruthyStr(prefs.service_type) THEN <<>> ELSE <<"service_type">>)
          \o (IF TruthyNum(OrNum(prefs.budget_min, prefs.budget_max))
                THEN <<>> ELSE <<"budget">>)
          \o (IF has_time_info THEN <<>> ELSE <<"time_info">>)
          \o (IF TruthyStr(prefs.location) THEN <<>> ELSE <<"location">>)
  IN [ready_to_match |-> missing_fields = <<>>, missing_fields |-> missing_fields]

\* a generator that asks about the missing field of the lowest priority
clarifying_question_last(missing_fields) ==
  IF missing_fields = <<>>
    THEN [question |-> "Perfect! Let me find the best matches for you!", field |-> None]
  ELSE [question |-> "Can you tell me more about what you're looking for?",
        field |-> Some(missing_fields[Len(missing_fields)])]

\* ClarifyingQuestionGeneratorTool.execute: [question, field] for the first
\* missing field
clarifying_question(missing_fields) ==
  IF missing_fields = <<>>
    THEN [question |-> "Perfect! Let me find the best matches for you!", field |-> None]
  ELSE LET field == missing_fields[1]
       IN [question |->
             CASE field = "service_type" -> "What service are you looking for?"
               [] field = "budget" -> "What's your budget for this service?"
               [] field = "time_info" -> "When do you need this?"
               [] field = "location" ->
                    "Where would you like to get this done? We're currently serving Boston, Cambridge (MA), and New York City."
               [] field = "location_ambiguous_cambridge" ->
                    "Did you mean Cambridge, Massachusetts (near Boston) or somewhere else? We're currently serving the Boston/Cambridge area and NYC."
               [] OTHER -> "Can you tell me more about what you're looking for?",
           field |-> Some(field)]

(***************************************************************************)
(* qa_tools.py                                                              *)
(***************************************************************************)

\* CompletenessValidatorTool.execute: the missing required fields
completeness_missing(prefs) ==
  (IF prefs.service_type = None THEN <<"service_type">> ELSE <<>>)
    \o (IF OrNum(prefs.budget_min, prefs.budget_max) = None THEN <<"budget">> ELSE <<>>)
    \o (IF prefs.time_urgency = None THEN <<"time_urgency">> ELSE <<>>)

valid_urgencies == {"ASAP", "today", "week", "flexible"}

\* BusinessRuleCheckerTool.execute: the violations
business_rule_violations(prefs) ==
  LET budget_max == prefs.budget_max
      budget_min == prefs.budget_min
  IN (IF budget_max # None /\ budget_max[1] <= 0
        THEN <<"Budget must be greater than $0">> ELSE <<>>)
       \o (IF budget_max # None /\ budget_max[1] > 100000
             THEN <<"Budget exceeds maximum allowed ($1000)">> ELSE <<>>)
       \o (IF TruthyStr(prefs.time_urgency) /\ prefs.time_urgency[1] \notin valid_urgencies
             THEN <<"Invalid time urgency: " \o prefs.time_urgency[1]>> ELSE <<>>)
       \o (IF TruthyNum(budget_min) /\ TruthyNum(budget_max) /\ budget_min[1] > budget_max[1]
             THEN <<"Minimum budget cannot exceed maximum budget">> ELSE <<>>)

\* DataQualityScorerTool.execute: [quality_score, issues]
data_quality(prefs) ==
  LET missing_required ==
        (IF TruthyStr(prefs.service_type) THEN <<>> ELSE <<"service_type">>)
          \o (IF TruthyNum(prefs.budget_max) THEN <<>> ELSE <<"budget_max">>)
          \o (IF TruthyStr(prefs.time_urgency) THEN <<>> ELSE <<"time_urgency">>)
      negative == TruthyNum(prefs.budget_max) /\ prefs.budget_max[1] <= 0
      excessive == TruthyNum(prefs.budget_max) /\ ~negative /\ prefs.budget_max[1] > 100000
      inconsistent == /\ TruthyNum(prefs.budget_min) /\ TruthyNum(prefs.budget_max)
                      /\ prefs.budget_min[1] > prefs.budget_max[1]
      no_artisan == ~TruthyStr(prefs.artisan_preference)
      score == 100 - 10 * Len(missing_required) - (IF negative THEN 20 ELSE 0)
                 - (IF excessive THEN 10 ELSE 0) - (IF inconsistent THEN 20 ELSE 0)
                 - (IF no_artisan THEN 5 ELSE 0)
  IN [quality_score |-> Max(0, score),
      issues |->
        (IF missing_required # <<>>
           THEN <<"Missing required fields: " \o JoinComma(missing_required)>> ELSE <<>>)
          \o (IF negative THEN <<"Invalid budget: must be positive">> ELSE <<>>)
          \o (IF excessive THEN <<"Budget exceeds recommended maximum">> ELSE <<>>)
          \o (IF inconsistent THEN <<"Budget range is inconsistent">> ELSE <<>>)
          \o (IF no_artisan THEN <<"No provider preference specified (optional)">> ELSE <<>>)]

\* AnomalyDetectorTool.execute: None, or Some(reason) of the anomaly
anomaly_detector(data) ==
  IF data.budget_max # None /\ data.budget_max[1] < 500
    THEN Some("Budget is suspiciously low (under $5)")
  ELSE IF data.budget_max # None /\ data.budget_max[1] > 50000
    THEN Some("Budget is unusually high (over $500)")
  ELSE None

\* the minimum quality threshold of QualityAssuranceAgent.execute
MinQualityScore == 70

\* ValidationReportTool.execute and QualityAssuranceAgent.execute:
\* [ready_to_proceed, issues, quality_score]
qa_agent(preferences) ==
  LET missing == completeness_missing(preferences)
      violations == business_rule_violations(preferences)
      quality == data_quality(preferences)
      anomaly == anomaly_detector(preferences)
      issues == [k \in 1..Len(missing) |-> "Missing: " \o missing[k]]
                  \o violations \o quality.issues
                  \o (IF anomaly # None THEN <<"Anomaly detected: " \o anomaly[1]>> ELSE <<>>)
      passed == missing = <<>> /\ violations = <<>> /\ anomaly = None
  IN [ready_to_proceed |-> passed /\ quality.quality_score >= MinQualityScore,
      issues |-> issues,
      quality_score |-> quality.quality_score]

\* PreferenceCrew._generate_clarification_message
generate_clarification_message(issues) ==
  IF issues = <<>> THEN "I need a bit more information to find the best match for you."
  ELSE LET first_issue == Lower(issues[1])
       IN IF Contains("budget", first_issue)
            THEN "Could you clarify your budget range? For example, 'around $50' or '$30-$60'."
          ELSE IF Contains("time", first_issue) \/ Contains("urgency", first_issue)
            THEN "When would you like your appointment? For example, 'today', 'this week', or 'next Monday'."
          ELSE IF Contains("service", first_issue)
            THEN "What service are you looking for? For example, 'haircut', 'manicure', or 'facial'."
          ELSE IF Contains("location", first_issue)
            THEN "Where would you like to get this service? Please share your location or preferred area."
          ELSE "I need a bit more information to help you find the perfect match. Could you provide more details?"

(***************************************************************************)
(* detect_time_suggestion_acceptance: [accepted, suggested_date,            *)
(* suggested_time].  The assistant messages of the model name no month, so  *)
(* the month-name patterns find nothing; special_notes is never suggested.  *)
(***************************************************************************)
acceptance_patterns ==
  <<"yes", "yeah", "yep", "sure", "ok", "okay", "sounds good", "that works", "perfect",
    "great", "let's do it", "book it", "i'll take it", "that's perfect", "works for me",
    "let's go", "confirmed", "confirm", "accept", "agreed">>

detect_time_suggestion_acceptance(user_message, last_assistant_message, now) ==
  LET assistant_lower == Lower(last_assistant_message)
      is_accepting == ContainsAny(acceptance_patterns, Lower(user_message))
      time_match == re_search(TimeAmPmPattern, assistant_lower)
      named == {k \in 1..7 : Contains(days_of_week[k], assistant_lower)}
      day_num == (CHOOSE k \in named : \A j \in named : k <= j) - 1
      days_ahead == IF day_num - weekday(now.day) < 0
                      THEN day_num - weekday(now.day) + 7 ELSE day_num - weekday(now.day)
  IN IF ~is_accepting
       THEN [accepted |-> FALSE, suggested_date |-> None, suggested_time |-> None]
     ELSE [accepted |-> TRUE,
           suggested_date |->
             IF Contains("tomorrow", assistant_lower) THEN Some(isoformat(now.day + 1))
             ELSE IF named # {} THEN Some(isoformat(now.day + days_ahead))
             ELSE IF Contains("today", assistant_lower) THEN Some(isoformat(now.day))
             ELSE None,
           suggested_time |->
             IF time_match = None THEN None
             ELSE Some(TwoDigits(To24(ParseInt(time_match[1].g[1]), time_match[1].g[3]))
                         \o ":" \o TwoDigits(ParseInt(time_match[1].g[2])))]

(***************************************************************************)
(* The language model.  A reply to the location prompt is "ERROR" (the call *)
(* raises), "NONE", or what the rules and examples of the prompt            *)
(* (conversation_tools.py 1186-1213) prescribe for the message.             *)
(***************************************************************************)
llm_replies(text) ==
  LET text_lower == Lower(text)
      word(w) == re_search(WordPattern(w), text_lower) # None
      state == word("ma") \/ word("massachusetts") \/ word("mass")
      places == {k \in 1..Len(all_places) : Contains(all_places[k][1], text_lower)}
  IN {"ERROR"} \cup
       (IF places # {}
          THEN {all_places[k][2] \o ", " \o all_places[k][3] : k \in places}
        ELSE IF word("cambridge") /\ word("uk") THEN {"AMBIGUOUS:cambridge"}
        ELSE IF word("cambridge") /\ ~state /\ ~word("boston") THEN {"AMBIGUOUS:cambridge"}
        ELSE IF word("cambridge") THEN {"Cambridge, MA"}
        ELSE IF word("boston") THEN {"Boston, MA", "Boston"}
        ELSE IF word("nyc") \/ Contains("new york", text_lower) THEN {"New York, NY", "New York"}
        ELSE IF word("london") THEN {"UNSUPPORTED:London"}
        ELSE {"NONE"})

StartsWith(s, prefix) == Len(s) >= Len(prefix) /\ SubSeq(s, 1, Len(prefix)) = prefix

location_signals ==
  <<"in ", "near ", "around ", "close to ", "at ", "on ", "boston", "cambridge", "new york",
    "nyc", "manhattan", "brooklyn", "station", "square", "street", "st ", "avenue", "ave ",
    "park", "subway", "metro", "landmark", "neighborhood", "area">>

\* the quick check of extract_location_with_llm for location-related words
has_location_signal(text) == ContainsAny(location_signals, Lower(text))

\* extract_location_with_llm, given the outcome of the quick check on the
\* message and the model's reply
extract_location_with_llm(signal, reply, current_location) ==
  IF ~signal THEN current_location
  ELSE IF reply = "ERROR" THEN None
  ELSE IF reply = "NONE" \/ reply = "" THEN current_location
  ELSE IF StartsWith(reply, "UNSUPPORTED:") THEN None
  ELSE IF StartsWith(reply, "AMBIGUOUS:") THEN Some(reply)
  ELSE IF ~Contains("MA", reply) /\ ~Contains("NY", reply)
    THEN (IF ContainsAny(<<"new york", "nyc", "brooklyn", "manhattan">>, Lower(reply))
            THEN Some(reply \o ", NY") ELSE Some(reply \o ", MA"))
  ELSE Some(reply)

(***************************************************************************)
(* The modelled inputs: what users say, what the assistant said last, and   *)
(* the instants at which a conversation takes place                         *)
(***************************************************************************)

Corpus ==
  {"I need a haircut", "around $60", "today in Boston", "I'm in cambridge",
   "a massage in cambridge", "at least $100", "$50",
   "thursday at 3pm in Boston",
   "at least 0 dollars", "$600", "yes that works", "before friday",
   "whenever, near times square", "hello"}

AssistantMessages == {"", "How about tomorrow at 2:00 PM?"}

\* Tuesday 2025-11-04 10:00 and Friday 2025-11-07 18:00
Clock == {[day |-> 1, hour |-> 10], [day |-> 4, hour |-> 18]}

\* a function as an explicit table of its values
Table(f) == f @@ f

\* what the extractors yield for each utterance of the corpus, computed once
Extracted ==
  Table([u \in Corpus |->
     Table([c \in Clock |->
        [service_type |-> parse_intent(u),
         budget |-> extract_budget(u),
         time_urgency |-> extract_urgency(u),
         datetime |-> extract_datetime_details(u, c),
         artisan_preference |-> extract_artisan_preference(u),
         location |-> extract_location(u),
         has_location_signal |-> has_location_signal(u),
         llm_replies |-> llm_replies(u),
         acceptance |->
           Table([a \in AssistantMessages |->
                    detect_time_suggestion_acceptance(u, a, c)])]])])

(***************************************************************************)
(* PreferenceExtractorTool.execute: the current preferences overlaid with   *)
(* what the message yields.  The result has no service_type key.  Here and  *)
(* below a message is passed as x, its entry Extracted[message][now].       *)
(***************************************************************************)
preference_extractor(x, current_prefs) ==
     [service_type |-> None,
      budget_min |-> IF x.budget.budget_min # None THEN x.budget.budget_min
                     ELSE current_prefs.budget_min,
      budget_max |-> IF x.budget.budget_max # None THEN x.budget.budget_max
                     ELSE current_prefs.budget_max,
      time_urgency |-> IF TruthyStr(x.time_urgency) THEN x.time_urgency
                       ELSE current_prefs.time_urgency,
      artisan_preference |-> IF TruthyStr(x.artisan_preference) THEN x.artisan_preference
                             ELSE current_prefs.artisan_preference,
      special_notes |-> current_prefs.special_notes,
      preferred_date |-> IF TruthyStr(x.datetime.preferred_date)
                           THEN x.datetime.preferred_date ELSE current_prefs.preferred_date,
      preferred_time |-> IF TruthyStr(x.datetime.preferred_time)
                           THEN x.datetime.preferred_time ELSE current_prefs.preferred_time,
      time_constraint |-> IF TruthyStr(x.datetime.time_constraint)
                            THEN x.datetime.time_constraint ELSE current_prefs.time_constraint,
      location |-> IF TruthyStr(x.location) THEN x.location ELSE current_prefs.location]

\* the merge of ConversationAgent.execute (191-222): the extractor's value
\* unless it is None
merge_preferences(preference_result, current_preferences) ==
  [f \in DOMAIN EmptyPreferences |->
     IF preference_result[f] # None THEN preference_result[f] ELSE current_preferences[f]]

\* the text of a reply that the language model phrased
Generated == "<generated>"

\* the outcome of a try body: Return(v), or Raise when an exception left it
Return(v) == <<v>>

Raise == <<>>

\* the environment of one turn: the last assistant message of the history,
\* the language model's location reply ("ERROR": its calls raise), and the
\* fault injected
Faults == {"none", "search", "qa", "crew"}

(***************************************************************************)
(* ConversationAgent.execute, step by step; each step is given the results  *)
(* of the steps before it.  asked is the clarifying question put into the   *)
(* prompt of the reply, which the fallback reply quotes.                    *)
(***************************************************************************)

\* Step 3 onwards (255-535): readiness, the next question and the reply
agent_reply(env, current_preferences, extracted_preferences, location_ambiguous, readiness) ==
  LET missing_fields_adjusted ==
        IF location_ambiguous
          THEN <<"location_ambiguous_cambridge">>
                 \o SelectSeq(readiness.missing_fields, LAMBDA f : f # "location")
        ELSE readiness.missing_fields
      question_result == clarifying_question(missing_fields_adjusted)
  IN IF readiness.ready_to_match /\ env.fault = "search"
       \* an exception of the live search (263-294) leaves the try body
       THEN Raise
     ELSE IF readiness.ready_to_match
       THEN Return([extracted_preferences |-> extracted_preferences,
                    response_to_user |-> IF env.llm = "ERROR" THEN "I found options for you"
                                         ELSE Generated,
                    ready_to_match |-> TRUE,
                    next_question |-> None,
                    asked |-> None])
     ELSE Return([extracted_preferences |-> extracted_preferences,
                  response_to_user |-> IF env.llm = "ERROR"
                                         THEN "Great! " \o question_result.question
                                       ELSE Generated,
                  ready_to_match |-> FALSE,
                  next_question |-> question_result.field,
                  asked |-> Some(question_result.question)])

\* the record after the ambiguity check (239-253): an ambiguous location is
\* cleared, a location lost otherwise is restored
agent_disambiguate(env, current_preferences, cleared, location_ambiguous) ==
  LET extracted_preferences ==
        IF TruthyStr(current_preferences.location) /\ ~TruthyStr(cleared.location)
             /\ ~location_ambiguous
          THEN [cleared EXCEPT !.location = current_preferences.location]
        ELSE cleared
  IN agent_reply(env, current_preferences, extracted_preferences, location_ambiguous,
                 readiness_detector(extracted_preferences))

is_ambiguous(location) == location # None /\ StartsWith(location[1], "AMBIGUOUS:")

\* Step 2.5 (224-245): the language model's location overrides the merged one
agent_locate(env, current_preferences, merged, llm_location) ==
  LET with_llm == IF TruthyStr(llm_location) THEN llm_location ELSE merged.location
  IN agent_disambiguate(env, current_preferences,
                        [merged EXCEPT !.location = IF is_ambiguous(with_llm) THEN None
                                                    ELSE with_llm],
                        is_ambiguous(with_llm))

\* Step 2 (176-222): the extractor's result merged into the current record
agent_merge(x, env, current_preferences, merged) ==
  agent_locate(env, current_preferences, merged,
               extract_location_with_llm(x.has_location_signal, env.llm, merged.location))

\* Steps 0.5 and 1 with the service type written whether or not the message
\* names one
agent_intent_unguarded(x, time_acceptance, preferences) ==
  [preferences EXCEPT
     !.preferred_date = IF time_acceptance.accepted /\ TruthyStr(time_acceptance.suggested_date)
                          THEN time_acceptance.suggested_date ELSE @,
     !.preferred_time = IF time_acceptance.accepted /\ TruthyStr(time_acceptance.suggested_time)
                          THEN time_acceptance.suggested_time ELSE @,
     !.service_type = x.service_type]

\* Steps 0.5 and 1 (109-174): an accepted time suggestion and the service type
\* are written into the caller's record
agent_intent(x, time_acceptance, preferences) ==
  [preferences EXCEPT
     !.preferred_date = IF time_acceptance.accepted /\ TruthyStr(time_acceptance.suggested_date)
                          THEN time_acceptance.suggested_date ELSE @,
     !.preferred_time = IF time_acceptance.accepted /\ TruthyStr(time_acceptance.suggested_time)
                          THEN time_acceptance.suggested_time ELSE @,
     !.service_type = IF TruthyStr(x.service_type) THEN x.service_type ELSE @]

agent_extract(x, env, current_preferences) ==
  agent_merge(x, env, current_preferences,
              merge_preferences(preference_extractor(x, current_preferences),
                                current_preferences))

\* the handler of execute (537-549): the fallback carries the caller's record
agent_except(outcome, current_preferences) ==
  IF outcome = Raise
    THEN [extracted_preferences |-> current_preferences,
          response_to_user |-> "I'd love to help! What service are you looking for?",
          ready_to_match |-> FALSE,
          next_question |-> Some("service_type"),
          asked |-> None]
  ELSE outcome[1]

agent_try(x, env, current_preferences) ==
  agent_except(agent_extract(x, env, current_preferences), current_preferences)

conversation_agent(x, env, preferences) ==
  agent_try(x, env, agent_intent(x, x.acceptance[env.assistant], preferences))

(***************************************************************************)
(* PreferenceCrew.run: gatherPreferences                                    *)
(***************************************************************************)

\* the outcome of the validation of a ready record (91-151)
crew_validate(conversation_result, qa_result) ==
  IF ~qa_result.ready_to_proceed
    THEN [conversation_result EXCEPT
            !.ready_to_match = FALSE,
            !.response_to_user = generate_clarification_message(qa_result.issues),
            !.next_question = Some("clarification_needed")]
  ELSE conversation_result

\* the handler of QualityAssuranceAgent.execute (126-139)
qa_except(outcome) ==
  IF outcome = Raise
    THEN [ready_to_proceed |-> FALSE, issues |-> <<"Validation error: fault">>,
          quality_score |-> 0]
  ELSE outcome[1]

\* the try body of run (69-151); with the fault "crew" an exception leaves
\* it before the agent has run (72: the message cannot be sliced)
crew_run(env, current_preferences, conversation_result) ==
  IF env.fault = "crew" THEN Raise
  ELSE IF ~conversation_result.ready_to_match THEN Return(conversation_result)
  ELSE Return(crew_validate(conversation_result,
                            qa_except(IF env.fault = "qa" THEN Raise
                                      ELSE Return(qa_agent(
                                             conversation_result.extracted_preferences)))))

\* run without its handler: an exception of the body leaves run
crew_reraise(outcome, current_preferences) == outcome

\* the handler of run (153-166): the fallback carries the caller's record
crew_except(outcome, current_preferences) ==
  IF outcome = Raise
    THEN Return([extracted_preferences |-> current_preferences,
                 response_to_user |->
                   "I'm having trouble processing that. Could you tell me what service you're looking for?",
                 ready_to_match |-> FALSE,
                 next_question |-> Some("service_type"),
                 asked |-> None])
  ELSE outcome

\* the outcome of a call of run
gather_preferences(x, env, current_preferences) ==
  crew_except(crew_run(env, current_preferences,
                       conversation_agent(x, env, current_preferences)),
              current_preferences)

(***************************************************************************)
(* MatchingCrew.run_preference_gathering: the preference phase of the       *)
(* combined crew                                                            *)
(***************************************************************************)

\* the try body (65-119) after the conversation agent has answered.  The
\* issues of the validation report are strings: issues[0].get('message')
\* (96) raises AttributeError whenever a rejection comes with an issue
gathering_try(conversation_result, qa_result) ==
  IF ~conversation_result.ready_to_match THEN Return(conversation_result)
  ELSE IF qa_result.ready_to_proceed THEN Return(conversation_result)
  ELSE IF qa_result.issues # <<>> THEN Raise
  ELSE Return([conversation_result EXCEPT
                 !.ready_to_match = FALSE,
                 !.response_to_user = "I need a bit more information."])

\* the handler (121-131): the fallback carries the caller's record
gathering_except(outcome, current_preferences) ==
  IF outcome = Raise
    THEN [extracted_preferences |-> current_preferences,
          response_to_user |-> "I'd love to help! What service are you looking for?",
          ready_to_match |-> FALSE,
          next_question |-> Some("service_type"),
          asked |-> None]
  ELSE outcome[1]

run_preference_gathering(x, env, current_preferences) ==
  LET conversation_result == conversation_agent(x, env, current_preferences)
  IN gathering_except(
       gathering_try(conversation_result,
                     qa_except(Return(qa_agent(conversation_result.extracted_preferences)))),
       current_preferences)

(***************************************************************************)

(* The provider store: the rows of the tables merchants, services and       *)
(* bookings that the queries of the tools read.  A rating is kept in tenths *)
(* (4.5 stars = 45), a price in cents, a booking_date as the day number of  *)
(* the clock, a time of day in minutes since midnight.                      *)
(***************************************************************************)

\* str(n) of a natural number
RECURSIVE Str(_)
Str(n) ==
  IF n < 10 THEN SubSeq("0123456789", n + 1, n + 1)
  ELSE Str(n \div 10) \o SubSeq("0123456789", (n % 10) + 1, (n % 10) + 1)

\* str(x) of a float amount of dollars, x given in cents
money_repr(cents) ==
  Str(cents \div 100) \o "."
    \o (IF cents % 10 = 0 THEN Str((cents % 100) \div 10) ELSE TwoDigits(cents % 100))

\* str(x) of a float rating, x given in tenths
rating_repr(tenths) == Str(tenths \div 10) \o "." \o Str(tenths % 10)

\* round(n / d, 0) of Python 3: a tie goes to the even neighbour
Round(n, d) ==
  LET q == n \div d
      r == n % d
  IN IF 2 * r < d THEN q
     ELSE IF 2 * r > d THEN q + 1
     ELSE IF q % 2 = 0 THEN q ELSE q + 1

RECURSIVE SortByKey(_, _)
\* list.sort(key=...): the items in ascending order of their keys, items
\* of equal keys in their original order
SortByKey(items, keys) ==
  IF items = <<>> THEN <<>>
  ELSE LET i == CHOOSE j \in 1..Len(keys) :
                  /\ \A k \in 1..Len(keys) : keys[j] <= keys[k]
                  /\ \A k \in 1..(j - 1) : keys[k] # keys[j]
           drop(q) == SubSeq(q, 1, i - 1) \o SubSeq(q, i + 1, Len(q))
       IN <<items[i]>> \o SortByKey(drop(items), drop(keys))

\* s[:n]
Take(q, n) == SubSeq(q, 1, Min(n, Len(q)))

RECURSIVE Strip(_)
\* s.strip()
Strip(s) ==
  IF s = "" THEN ""
  ELSE IF SubSeq(s, 1, 1) = " " THEN Strip(SubSeq(s, 2, Len(s)))
  ELSE IF SubSeq(s, Len(s), Len(s)) = " " THEN Strip(SubSeq(s, 1, Len(s) - 1))
  ELSE s

RECURSIVE SplitSlash(_)
\* s.split("/")
SplitSlash(s) ==
  IF ~Contains("/", s) THEN <<s>>
  ELSE LET i == CHOOSE j \in 1..Len(s) :
                  SubSeq(s, j, j) = "/" /\ \A k \in 1..(j - 1) : SubSeq(s, k, k) # "/"
       IN <<SubSeq(s, 1, i - 1)>> \o SplitSlash(SubSeq(s, i + 1, Len(s)))

\* the merchants row of an id (a service references an existing merchant)
merchant_row(db, id) ==
  db.merchants[CHOOSE i \in 1..Len(db.merchants) : db.merchants[i].id = id]

\* FROM services s JOIN merchants m ON s.merchant_id = m.id, as the
\* dictionaries that ServiceFilterTool builds of the rows (125-155)
service_dict(db, s) ==
  [id |-> s.id, merchant_id |-> s.merchant_id, service_name |-> s.service_name,
   base_price |-> s.base_price, duration_minutes |-> s.duration_minutes,
   merchant_name |-> merchant_row(db, s.merchant_id).business_name,
   merchant_rating |-> merchant_row(db, s.merchant_id).rating,
   is_verified |-> merchant_row(db, s.merchant_id).is_verified,
   city |-> merchant_row(db, s.merchant_id).city,
   location_lat |-> merchant_row(db, s.merchant_id).location_lat,
   location_lon |-> merchant_row(db, s.merchant_id).location_lon,
   distance_miles |-> None, availability_score |-> None]

service_keywords ==
  [haircut |-> <<"haircut", "cut", "trim", "style", "barber", "hair">>,
   nails |-> <<"nail", "manicure", "pedicure", "mani", "pedi">>,
   massage |-> <<"massage", "deep tissue", "swedish", "hot stone", "body work">>,
   spa |-> <<"spa", "relaxation", "treatment">>,
   facial |-> <<"facial", "skincare", "skin care", "face">>,
   waxing |-> <<"wax", "hair removal", "brazilian">>,
   makeup |-> <<"makeup", "cosmetic", "beauty", "glam">>,
   cleaning |-> <<"clean", "maid", "housekeeping">>]

\* the WHERE clause of the query of ServiceFilterTool (85-121): LIKE '%kw%'
\* is a substring test; cities are the city patterns, <<>> without location
service_row_matches(row, keywords, cities) ==
  /\ row.is_active
  /\ \/ ContainsAny(keywords, Lower(row.service_name))
     \/ ContainsAny(keywords, Lower(row.service_category))
  /\ cities # <<>> => \E i \in 1..Len(cities) : Contains(cities[i], Lower(row.city))

\* ORDER BY m.rating DESC, s.base_price ASC, and the rows as dictionaries
service_rows(db, rows) ==
  SortByKey([i \in 1..Len(rows) |-> service_dict(db, rows[i])],
            [i \in 1..Len(rows) |->
               rows[i].base_price - 10000000 * merchant_row(db, rows[i].merchant_id).rating])

\* ServiceFilterTool.execute: the matching services; location is an
\* Optional string
service_filter(db, service_type, location) ==
  LET keywords == IF Lower(service_type) \in DOMAIN service_keywords
                    THEN service_keywords[Lower(service_type)]
                  ELSE <<Lower(service_type)>>
      cities == IF ~TruthyStr(location) THEN <<>>
                ELSE IF Contains("/", location[1])
                  THEN [i \in 1..Len(SplitSlash(location[1])) |->
                          Lower(Strip(SplitSlash(location[1])[i]))]
                ELSE <<Lower(location[1])>>
  IN service_rows(db, SelectSeq(db.services,
                                LAMBDA s : service_row_matches(
                                             s @@ [service_category |->
                                                     merchant_row(db, s.merchant_id).service_category,
                                                   city |-> merchant_row(db, s.merchant_id).city],
                                             keywords, cities)))

\* LocationFilterTool._haversine_distance, evaluated on the coordinates of
\* the model: <<lat1, lon1, lat2, lon2, d, r>> with the coordinates in
\* millionths of a degree, d the distance in ten-thousandths of a mile
\* (rounded down; no distance of the table is that close to a limit of the
\* model) and r = round(distance, 2) in hundredths of a mile
haversine_table ==
  {<<42360100, -71094200, 42367336, -71094200, 4999, 50>>,
   <<42360100, -71094200, 42374630, -71094200, 10039, 100>>,
   <<42360100, -71094200, 42374587, -71094200, 10010, 100>>,
   <<42360100, -71094200, 42504678, -71094200, 99899, 999>>,
   <<42360100, -71094200, 42512059, -71094200, 104999, 1050>>,
   <<0, -71094200, 42367336, -71094200, 29274806, 292748>>,
   <<0, -71094200, 42374630, -71094200, 29279846, 292798>>,
   <<0, -71094200, 42374587, -71094200, 29279816, 292798>>,
   <<0, -71094200, 42504678, -71094200, 29369706, 293697>>,
   <<0, -71094200, 42512059, -71094200, 29374806, 293748>>,
   <<42360100, 0, 42367336, -71094200, 35156828, 351568>>,
   <<42360100, 0, 42374630, -71094200, 35154643, 351546>>,
   <<42360100, 0, 42374587, -71094200, 35154656, 351547>>,
   <<42360100, 0, 42504678, -71094200, 35115745, 351157>>,
   <<42360100, 0, 42512059, -71094200, 35113541, 351135>>}

\* <<d, r>> of the table
haversine_distance(lat1, lon1, lat2, lon2) ==
  LET row == CHOOSE r \in haversine_table :
               r[1] = lat1 /\ r[2] = lon1 /\ r[3] = lat2 /\ r[4] = lon2
  IN <<row[5], row[6]>>

\* LocationFilterTool.execute: the providers within max_distance (in
\* ten-thousandths of a mile) of the user, the closest first; user_location
\* is a dict of lat and lon
location_filter(user_location, max_distance, providers) ==
  IF user_location.lat = None \/ user_location.lon = None THEN providers
  ELSE LET distance(provider) ==
             haversine_distance(user_location.lat[1], user_location.lon[1],
                                provider.location_lat[1], provider.location_lon[1])
           within == SelectSeq(providers,
                               LAMBDA provider :
                                 /\ provider.location_lat # None
                                 /\ provider.location_lon # None
                                 /\ distance(provider)[1] <= max_distance)
           providers_with_distance ==
             [i \in 1..Len(within) |->
                [within[i] EXCEPT !.distance_miles = Some(distance(within[i])[2])]]
       IN SortByKey(providers_with_distance,
                    [i \in 1..Len(within) |-> providers_with_distance[i].distance_miles[1]])

\* Step 2 of MatchingAgent.execute (131-157): the location filter, applied
\* if the user location and both of its coordinates are truthy;
\* user_location is None or Some dict
matching_location(user_location, max_distance, matching_services) ==
  IF user_location # None /\ TruthyNum(user_location[1].lat)
       /\ TruthyNum(user_location[1].lon)
    THEN location_filter(user_location[1], max_distance, matching_services)
  ELSE matching_services

\* budget_min * (1 - flexibility) is a product of binary floating-point
\* numbers: for these whole-dollar bounds up to $1000 (in cents) it is the
\* double above the one nearest to nine tenths of the bound, for instance
\* 47 * 0.9 = 42.300000000000004, and for the other ones it is that double.
\* budget_max * (1 + flexibility) is never below the double nearest to
\* eleven tenths of the bound, and a price a cent or more beyond either edge
\* is decided as in decimal arithmetic.
flexible_min_above ==
  {1300, 2100, 2600, 3100, 3700, 4200, 4700, 5200, 5700, 6200, 6700, 7400, 7900, 8400,
   8900, 9400, 9900, 10400, 10900, 11400, 11900, 12400, 12900, 13400, 13900, 14300,
   14800, 15300, 15800, 16300, 16800, 17300, 17800, 18300, 18800, 19300, 19800, 20300,
   20800, 21300, 21800, 22300, 22800, 23300, 23800, 24300, 24800, 25300, 25800, 26300,
   26800, 27300, 27800, 28300, 28600, 29100, 29600, 30100, 30600, 31100, 31600, 32100,
   32600, 33100, 33600, 34100, 34600, 35100, 35600, 36100, 36600, 37100, 37600, 38100,
   38600, 39100, 39600, 40100, 40600, 41100, 41600, 42100, 42600, 43100, 43600, 44100,
   44600, 45100, 45600, 46100, 46600, 47100, 47600, 48100, 48600, 49100, 49600, 50100,
   50600, 51100, 51600, 52100, 52600, 53100, 53600, 54100, 54600, 55100, 55600, 56100,
   56600, 57200, 57700, 58200, 58700, 59200, 59700, 60200, 60700, 61200, 61700, 62200,
   62700, 63200, 63700, 64200, 64700, 65200, 65700, 66200, 66700, 67200, 67700, 68200,
   68700, 69200, 69700, 70200, 70700, 71200, 71700, 72200, 72700, 73200, 73700, 74200,
   74700, 75200, 75700, 76200, 76700, 77200, 77700, 78200, 78700, 79200, 79700, 80200,
   80700, 81200, 81700, 82200, 82700, 83200, 83700, 84200, 84700, 85200, 85700, 86200,
   86700, 87200, 87700, 88200, 88700, 89200, 89700, 90200, 90700, 91200, 91700, 92200,
   92700, 93200, 93700, 94200, 94700, 95200, 95700, 96200, 96700, 97200, 97700, 98200,
   98700, 99200, 99700}

\* flexible_min <= price and price <= flexible_max, bounds and price in cents
within_flexible_min(budget_min, price) ==
  \/ 9 * budget_min < 10 * price
  \/ 9 * budget_min = 10 * price /\ budget_min \notin flexible_min_above

within_flexible_max(budget_max, price) == 10 * price <= 11 * budget_max

\* BudgetFilterTool.execute: the services whose price lies within the
\* budget widened by 10%, cheapest first; the bounds are Optional cents
budget_filter(budget_min, budget_max, services) ==
  LET affordable(s) ==
        /\ budget_min # None => within_flexible_min(budget_min[1], s.base_price)
        /\ budget_max # None => within_flexible_max(budget_max[1], s.base_price)
      affordable_services == SelectSeq(services, affordable)
  IN SortByKey(affordable_services,
               [i \in 1..Len(affordable_services) |-> affordable_services[i].base_price])

\* the bookings that count against availability: COUNT(*) ... WHERE
\* merchant_id = :merchant_id AND booking_date BETWEEN :start AND :end AND
\* status IN ('confirmed', 'pending')
booking_count(db, merchant_id, start_date, end_date) ==
  Len(SelectSeq(db.bookings,
                LAMBDA b : /\ b.merchant_id = merchant_id
                           /\ start_date <= b.booking_date /\ b.booking_date <= end_date
                           /\ b.status \in {"confirmed", "pending"}))

\* the providers of AvailabilityFilterTool that have fewer than 8 bookings
\* a day between the two dates, the most available first; the score
\* 1 - booking_count / max_bookings is kept in 64ths
availability_window(db, providers, start_date, end_date) ==
  LET max_bookings == (end_date - start_date + 1) * 8
      count(p) == booking_count(db, p.merchant_id, start_date, end_date)
      scored == [i \in 1..Len(providers) |->
                   [providers[i] EXCEPT
                      !.availability_score =
                        Some(64 - (64 * count(providers[i])) \div max_bookings)]]
      available_providers ==
        SelectSeq(scored, LAMBDA p : count(p) < max_bookings)
  IN SortByKey(available_providers,
               [i \in 1..Len(available_providers) |->
                  0 - available_providers[i].availability_score[1]])

\* AvailabilityFilterTool.execute as MatchingAgent calls it (time_urgency
\* only); None has no lower(): the handler returns all the providers
availability_filter(db, now, time_urgency, providers) ==
  IF time_urgency = None THEN providers
  ELSE IF Lower(time_urgency[1]) \in {"asap", "today"}
    THEN availability_window(db, providers, now.day, now.day)
  ELSE IF Lower(time_urgency[1]) = "week"
    THEN availability_window(db, providers, now.day, now.day + 7)
  ELSE providers

\* ProviderStatusCheckerTool.execute: the ids of the merchants that are
\* verified and rated 4.0 or more
provider_status_checker(db, provider_ids) ==
  {id \in provider_ids :
     \E i \in 1..Len(db.merchants) :
        /\ db.merchants[i].id = id
        /\ db.merchants[i].is_verified
        /\ db.merchants[i].rating >= 40}

\* CandidateAggregatorTool._calculate_match_score, in hundredths; the
\* distance is in hundredths of a mile
calculate_match_score(candidate) ==
  Round(320 * candidate.merchant_rating
          + (IF candidate.distance_miles = None THEN 6000
             ELSE Max(0, 12000 - 12 * candidate.distance_miles[1]))
          + 125 * (IF candidate.availability_score = None THEN 32
                   ELSE candidate.availability_score[1])
          + (IF candidate.is_verified THEN 4000 ELSE 0),
        4)

\* CandidateAggregatorTool.execute: the services that passed every filter,
\* with the distance and the availability score of their merchant (1.0 if
\* it has none) and their match score, the best first
candidate_aggregator(matching_services, location_filtered, budget_filtered,
                     availability_filtered, status_checked) ==
  LET ids(q) == {q[i].id : i \in 1..Len(q)}
      merchants(q) == {q[i].merchant_id : i \in 1..Len(q)}
      distance_of(merchant_id) ==
        location_filtered[CHOOSE i \in 1..Len(location_filtered) :
                            /\ location_filtered[i].merchant_id = merchant_id
                            /\ \A k \in 1..(i - 1) :
                                  location_filtered[k].merchant_id # merchant_id
                         ].distance_miles
      score_of(merchant_id) ==
        LET p == availability_filtered[
                   CHOOSE i \in 1..Len(availability_filtered) :
                      /\ availability_filtered[i].merchant_id = merchant_id
                      /\ \A k \in 1..(i - 1) :
                            availability_filtered[k].merchant_id # merchant_id]
        IN IF p.availability_score = None THEN Some(64) ELSE p.availability_score
      passing == SelectSeq(matching_services,
                           LAMBDA s : /\ s.id \in ids(budget_filtered)
                                      /\ s.merchant_id \in merchants(location_filtered)
                                      /\ s.merchant_id \in merchants(availability_filtered)
                                      /\ s.merchant_id \in status_checked)
      final_candidates ==
        [i \in 1..Len(passing) |->
           [passing[i] EXCEPT !.distance_miles = distance_of(passing[i].merchant_id),
                              !.availability_score = score_of(passing[i].merchant_id)]]
  IN SortByKey(final_candidates,
               [i \in 1..Len(final_candidates) |->
                  0 - calculate_match_score(final_candidates[i])])

(***************************************************************************)
(* MatchingAgent.execute: the candidate filter pipeline.  Each step is      *)
(* given the results of the steps before it and the entries of              *)
(* filters_applied written so far.  An entry of filters_applied is kept as  *)
(* the name its text starts with and the count it reports, None for a       *)
(* filter that was not applied.                                             *)
(***************************************************************************)

filter_entry(name, count) == [filter |-> name, count |-> count]

match_result(status, message, candidates, filters_applied) ==
  [candidates |-> candidates, candidate_count |-> Len(candidates),
   filters_applied |-> filters_applied, status |-> status, message |-> message]

\* the candidates as the agent returns them (273-301), ten at most
format_candidates(final_candidates) ==
  [i \in 1..Min(10, Len(final_candidates)) |->
     [provider_id |-> final_candidates[i].merchant_id,
      provider_name |-> final_candidates[i].merchant_name,
      service_id |-> final_candidates[i].id,
      service_name |-> final_candidates[i].service_name,
      price |-> final_candidates[i].base_price,
      distance |-> final_candidates[i].distance_miles,
      rating |-> final_candidates[i].merchant_rating,
      match_score |-> calculate_match_score(final_candidates[i]),
      duration_minutes |-> final_candidates[i].duration_minutes]]

match_success(candidates, filters_applied) ==
  match_result("success", "Found " \o Str(Len(candidates)) \o " excellent matches!",
               candidates, filters_applied)

\* Steps 5 and 6 (216-310): provider status, aggregation
matching_quality(matching_services, location_filtered, budget_filtered, availability_filtered, valid_providers, filters_applied) ==
  IF valid_providers = {}
    THEN match_result("no_results", "No verified, high-quality providers found", <<>>,
                      filters_applied)
  ELSE match_success(format_candidates(candidate_aggregator(
                       matching_services, location_filtered, budget_filtered,
                       availability_filtered, valid_providers)),
                     filters_applied)

\* Step 4 (191-214): the availability filter
matching_available(db, time_urgency, matching_services, location_filtered, budget_filtered, availability_filtered, filters_applied) ==
  IF availability_filtered = <<>>
    THEN match_result("no_results",
                      "No providers available for time urgency: "
                        \o (IF time_urgency = None THEN "None" ELSE time_urgency[1]),
                      <<>>, filters_applied)
  ELSE LET valid_providers ==
             provider_status_checker(
               db, {availability_filtered[i].merchant_id :
                      i \in 1..Len(availability_filtered)})
       IN matching_quality(matching_services, location_filtered, budget_filtered,
                           availability_filtered, valid_providers,
                           Append(filters_applied,
                                  filter_entry("provider_quality",
                                               Some(Cardinality(valid_providers)))))

\* Step 3 going on to the availability filter with an empty list
matching_budget_through(db, now, preferences, matching_services, location_filtered, budget_filtered, filters_applied) ==
  LET availability_filtered ==
        availability_filter(db, now, preferences.time_urgency, budget_filtered)
  IN matching_available(db, preferences.time_urgency, matching_services,
                        location_filtered, budget_filtered, availability_filtered,
                        Append(filters_applied,
                               filter_entry("availability",
                                            Some(Len(availability_filtered)))))

\* Step 3 (159-189): the budget filter, applied if a bound is truthy
matching_budget(db, now, preferences, matching_services, location_filtered, budget_filtered, filters_applied) ==
  IF budget_filtered = <<>>
    THEN match_result("no_results",
                      "No services found within budget $"
                        \o (IF TruthyNum(preferences.budget_min)
                              THEN money_repr(preferences.budget_min[1]) ELSE "0")
                        \o "-$"
                        \o (IF TruthyNum(preferences.budget_max)
                              THEN money_repr(preferences.budget_max[1]) ELSE "unlimited"),
                      <<>>, filters_applied)
  ELSE LET availability_filtered ==
             availability_filter(db, now, preferences.time_urgency, budget_filtered)
       IN matching_available(db, preferences.time_urgency, matching_services,
                             location_filtered, budget_filtered, availability_filtered,
                             Append(filters_applied,
                                    filter_entry("availability",
                                                 Some(Len(availability_filtered)))))

\* a distance limit as the message writes the float: max_distance is in
\* ten-thousandths of a mile, a whole number of tenths
miles_repr(max_distance) ==
  Str(max_distance \div 10000) \o "." \o Str((max_distance % 10000) \div 1000)

\* Step 2 (131-157): the location filter, applied if the user location and
\* both of its coordinates are truthy
matching_located(db, now, preferences, max_distance, matching_services, location_filtered, filters_applied) ==
  IF location_filtered = <<>>
    THEN match_result("no_results",
                      "No providers found within " \o miles_repr(max_distance) \o " miles",
                      <<>>, filters_applied)
  ELSE LET applies == TruthyNum(preferences.budget_min) \/ TruthyNum(preferences.budget_max)
           budget_filtered ==
             IF applies
               THEN budget_filter(preferences.budget_min, preferences.budget_max,
                                  location_filtered)
             ELSE location_filtered
       IN matching_budget(db, now, preferences, matching_services, location_filtered,
                          budget_filtered,
                          Append(filters_applied,
                                 filter_entry("budget",
                                              IF applies THEN Some(Len(budget_filtered))
                                              ELSE None)))

\* Step 1 (93-129): the service filter
matching_services_found(db, now, preferences, user_location, max_distance, matching_services, filters_applied) ==
  IF matching_services = <<>>
    THEN match_result("no_results",
                      "No services found matching '" \o preferences.service_type[1] \o "'",
                      <<>>, filters_applied)
  ELSE LET applies == /\ user_location # None
                      /\ TruthyNum(user_location[1].lat)
                      /\ TruthyNum(user_location[1].lon)
           location_filtered ==
             matching_location(user_location, max_distance, matching_services)
       IN matching_located(db, now, preferences, max_distance, matching_services,
                           location_filtered,
                           Append(filters_applied,
                                  filter_entry("location",
                                               IF applies THEN Some(Len(location_filtered))
                                               ELSE None)))

\* the try body of execute (86-314); with the fault "matching" the session
\* of the store cannot be opened
matching_try(db, now, preferences, user_location, max_distance, fault) ==
  IF fault = "matching" THEN Raise
  ELSE IF ~TruthyStr(preferences.service_type)
    THEN Return(match_result("error", "Service type is required", <<>>, <<>>))
  ELSE LET matching_services ==
             service_filter(db, preferences.service_type[1], preferences.location)
       IN Return(matching_services_found(
                   db, now, preferences, user_location, max_distance, matching_services,
                   <<filter_entry("service_type", Some(Len(matching_services)))>>))

\* the handler of execute (316-329)
matching_except(outcome) ==
  IF outcome = Raise
    THEN match_result("error", "Error during matching: fault", <<>>,
                      <<filter_entry("error occurred", None)>>)
  ELSE outcome[1]

\* MatchingAgent.execute(preferences, user_location, max_distance)
matching_execute(db, now, preferences, user_location, max_distance, fault) ==
  matching_except(matching_try(db, now, preferences, user_location, max_distance, fault))

\* execute as run_matching_and_ranking is called in the chat flow and in
\* test_complete_flow.py: without user location, max_distance=10.0
matching_agent(db, now, preferences, fault) ==
  matching_execute(db, now, preferences, None, 10 * 10000, fault)

(***************************************************************************)
(* The availability tools.  A slot is [date, time, end_time]: the ISO date  *)
(* and the "HH:MM" strings of the dictionaries of the code; its datetime is *)
(* the pair of the two.                                                     *)
(***************************************************************************)

\* strftime("%H:%M") of a time of day
hhmm(minutes) == TwoDigits(minutes \div 60) \o ":" \o TwoDigits(minutes % 60)

\* the time of day of a "HH:MM" string
minutes_of(s) == 60 * ParseInt(SubSeq(s, 1, 2)) + ParseInt(SubSeq(s, 4, 5))

RECURSIVE StrLess(_, _)
\* a < b of two strings of digits and colons
StrLess(a, b) ==
  LET order == "0123456789:"
      rank(c) == CHOOSE j \in 1..Len(order) : SubSeq(order, j, j) = c
  IN IF b = "" THEN FALSE
     ELSE IF a = "" THEN TRUE
     ELSE IF SubSeq(a, 1, 1) # SubSeq(b, 1, 1)
       THEN rank(SubSeq(a, 1, 1)) < rank(SubSeq(b, 1, 1))
     ELSE StrLess(SubSeq(a, 2, Len(a)), SubSeq(b, 2, Len(b)))

\* the length that a booking is given if it has no end time
AssumedBookingMinutes == 60

\* the end of a booking as both tools compute it (174-178, 755-761)
booking_end(booking) ==
  IF booking.booking_time_end # None THEN booking.booking_time_end[1]
  ELSE booking.booking_time_start + AssumedBookingMinutes

\* the query with the pending bookings left out
booked_times_confirmed(db, provider_id, date_range) ==
  LET rows == SelectSeq(db.bookings,
                        LAMBDA b : /\ b.merchant_id = provider_id
                                   /\ date_range.start <= b.booking_date
                                   /\ b.booking_date <= date_range.end
                                   /\ b.status = "confirmed")
  IN SortByKey(rows, [i \in 1..Len(rows) |->
                        1440 * rows[i].booking_date + rows[i].booking_time_start])

\* the query of CalendarQueryTool.execute (68-101): the bookings of the
\* provider in the date range that are confirmed or pending, in the order
\* of date and start
booked_times(db, provider_id, date_range) ==
  LET rows == SelectSeq(db.bookings,
                        LAMBDA b : /\ b.merchant_id = provider_id
                                   /\ date_range.start <= b.booking_date
                                   /\ b.booking_date <= date_range.end
                                   /\ b.status \in {"confirmed", "pending"})
  IN SortByKey(rows, [i \in 1..Len(rows) |->
                        1440 * rows[i].booking_date + rows[i].booking_time_start])

\* the length of a calendar slot
SlotMinutes == 30

\* the day that the calendar lays out, 9:00 to 18:00, in minutes
WorkStart == 540

WorkEnd == 1080

\* the free slots of one day (153-194)
free_slots_of_day(day, bookings) ==
  LET starts == [k \in 1..((WorkEnd - WorkStart) \div SlotMinutes) |->
                   WorkStart + SlotMinutes * (k - 1)]
      is_free(slot_start) ==
        \A i \in 1..Len(bookings) :
           bookings[i].booking_date = day =>
             \/ slot_start + SlotMinutes <= bookings[i].booking_time_start
             \/ slot_start >= booking_end(bookings[i])
      free == SelectSeq(starts,
                        LAMBDA t : is_free(t) /\ t + SlotMinutes <= WorkEnd)
  IN [k \in 1..Len(free) |-> [day |-> day, start |-> free[k]]]

RECURSIVE calculate_available_slots(_, _, _)
\* CalendarQueryTool._calculate_available_slots: day by day
calculate_available_slots(start_date, end_date, bookings) ==
  IF start_date > end_date THEN <<>>
  ELSE free_slots_of_day(start_date, bookings)
         \o calculate_available_slots(start_date + 1, end_date, bookings)

\* WorkingHoursCheckerTool._get_default_hours: <<open, close>> of a weekday
\* in minutes, None when closed; the merchants of the store carry no
\* business_hours of their own
default_hours(day_of_week) ==
  IF day_of_week <= 4 THEN Some(<<540, 1080>>)
  ELSE IF day_of_week = 5 THEN Some(<<600, 960>>)
  ELSE None

\* WorkingHoursCheckerTool._convert_yelp_hours_to_working_hours: the entries
\* [day, start, end] of the stored hours (day 0 is Monday, times written
\* HHMM) collapse to the earliest opening and the latest closing of each
\* weekday; a weekday without entry is closed
convert_yelp_hours_to_working_hours(business_hours) ==
  LET time_of(raw) == 60 * (raw \div 100) + (raw % 100)
      day_intervals(idx) == {i \in 1..Len(business_hours) : business_hours[i].day = idx}
      combine_intervals(intervals) ==
        IF intervals = {} THEN None
        ELSE Some(<<time_of(CHOOSE open \in {business_hours[i].start : i \in intervals} :
                           \A i \in intervals : open <= business_hours[i].start),
                    time_of(CHOOSE close \in {business_hours[i].end : i \in intervals} :
                           \A i \in intervals : close >= business_hours[i].end)>>)
  IN [idx \in 0..6 |-> combine_intervals(day_intervals(idx))]

\* WorkingHoursCheckerTool.execute: the stored business hours of the
\* provider when there are any, the default hours otherwise; the hours of a
\* weekday are <<open, close>> in minutes, or None when closed
working_hours_checker(db, provider_id) ==
  IF merchant_row(db, provider_id).business_hours # <<>>
  THEN convert_yelp_hours_to_working_hours(merchant_row(db, provider_id).business_hours)
  ELSE [day_of_week \in 0..6 |-> default_hours(day_of_week)]

\* AvailabilityAgent._filter_by_working_hours
filter_by_working_hours(slots, working_hours) ==
  SelectSeq(slots,
            LAMBDA slot :
              /\ working_hours[weekday(slot.day)] # None
              /\ working_hours[weekday(slot.day)][1][1] <= slot.start
              /\ slot.start < working_hours[weekday(slot.day)][1][2])

RECURSIVE has_duration(_, _, _)
\* the loop of SlotFinderTool (543-556): the slots of the day cover the time
\* from current_time to required_end_time without a gap
has_duration(slots, current_time, required_end_time) ==
  IF current_time >= required_end_time THEN TRUE
  ELSE IF \E i \in 1..Len(slots) :
             slots[i].start <= current_time /\ current_time < slots[i].start + SlotMinutes
    THEN has_duration(slots,
                      slots[CHOOSE i \in 1..Len(slots) :
                              /\ slots[i].start <= current_time
                              /\ current_time < slots[i].start + SlotMinutes
                              /\ \A k \in 1..(i - 1) :
                                    ~(/\ slots[k].start <= current_time
                                      /\ current_time < slots[k].start + SlotMinutes)].start
                        + SlotMinutes,
                      required_end_time)
  ELSE FALSE

\* a constraint in which "before" and "after" admit the preferred time itself
satisfies_constraint_inclusive(slot, preferred_time, time_constraint) ==
  IF ~(TruthyStr(preferred_time) /\ TruthyStr(time_constraint)) THEN TRUE
  ELSE IF time_constraint[1] = "before" THEN ~StrLess(preferred_time[1], slot.time)
  ELSE IF time_constraint[1] = "after" THEN ~StrLess(slot.time, preferred_time[1])
  ELSE IF time_constraint[1] = "by"
    THEN slot.end_time # "" /\ ~StrLess(preferred_time[1], slot.end_time)
  ELSE FALSE

\* the time constraint of SlotFinderTool (568-598) on the "HH:MM" strings
satisfies_constraint(slot, preferred_time, time_constraint) ==
  IF ~(TruthyStr(preferred_time) /\ TruthyStr(time_constraint)) THEN TRUE
  ELSE IF time_constraint[1] = "before" THEN StrLess(slot.time, preferred_time[1])
  ELSE IF time_constraint[1] = "after" THEN StrLess(preferred_time[1], slot.time)
  ELSE IF time_constraint[1] = "by"
    THEN slot.end_time # "" /\ ~StrLess(preferred_time[1], slot.end_time)
  ELSE FALSE

RECURSIVE slots_by_date(_)
\* the grouping of SlotFinderTool (520-531): the slots of each date, the
\* dates in the order of their first slot
slots_by_date(slots) ==
  IF slots = <<>> THEN <<>>
  ELSE <<SelectSeq(slots, LAMBDA slot : slot.day = slots[1].day)>>
         \o slots_by_date(SelectSeq(slots, LAMBDA slot : slot.day # slots[1].day))

\* the slots of one date that start a free stretch of the service duration
\* (536-566)
matching_slots_of_date(slots, service_duration) ==
  LET long_enough == SelectSeq(slots,
                               LAMBDA slot : has_duration(slots, slot.start,
                                                          slot.start + service_duration))
  IN [i \in 1..Len(long_enough) |->
        [date |-> isoformat(long_enough[i].day),
         time |-> hhmm(long_enough[i].start),
         end_time |-> hhmm((long_enough[i].start + service_duration) % 1440)]]

RECURSIVE matching_slots(_, _)
matching_slots(groups, service_duration) ==
  IF groups = <<>> THEN <<>>
  ELSE matching_slots_of_date(groups[1], service_duration)
         \o matching_slots(Tail(groups), service_duration)

\* SlotFinderTool.execute: the slots of the preferred date (of any date for
\* "any") that start a free stretch of the service duration and satisfy the
\* time constraint
slot_finder(preferred_date, preferred_time, time_constraint, service_duration,
            available_slots) ==
  SelectSeq(matching_slots(
              slots_by_date(SelectSeq(available_slots,
                                      LAMBDA slot : preferred_date = "any"
                                                      \/ isoformat(slot.day) = preferred_date)),
              service_duration),
            LAMBDA slot : satisfies_constraint(slot, preferred_time, time_constraint))

\* DoubleBookingPreventorTool.execute: is_available
double_booking_preventor(slot, service_duration, all_bookings) ==
  \A i \in 1..Len(all_bookings) :
     LET slot_start == 1440 * strptime(slot.date) + minutes_of(slot.time)
         booking_start == 1440 * all_bookings[i].booking_date
                            + all_bookings[i].booking_time_start
         booking_stop == 1440 * all_bookings[i].booking_date + booking_end(all_bookings[i])
     IN ~(slot_start < booking_stop /\ slot_start + service_duration > booking_start)

(***************************************************************************)
(* AvailabilityAgent.execute: the availability resolver                     *)
(***************************************************************************)

\* AvailabilityAgent._get_date_range: the days start..end to query; the
\* urgency is compared as it is written
get_date_range(now, time_urgency, preferred_date) ==
  IF TruthyStr(preferred_date)
    THEN [start |-> strptime(preferred_date[1]), end |-> strptime(preferred_date[1]) + 1]
  ELSE IF time_urgency \in {Some("asap"), Some("today")}
    THEN [start |-> now.day, end |-> now.day]
  ELSE IF time_urgency = Some("week") THEN [start |-> now.day, end |-> now.day + 7]
  ELSE [start |-> now.day, end |-> now.day + 30]

\* the slots of one candidate that the preventer lets through (162-176)
validated_slots(matching, service_duration, all_bookings) ==
  SelectSeq(matching,
            LAMBDA slot : double_booking_preventor(slot, service_duration, all_bookings))

\* the entry of a candidate with its slots (213-240), ten slots at most;
\* overall_score and recommendation_reason are the keys that RankingAgent
\* adds, None while they are absent
candidate_info(candidate, slots) ==
  [provider_id |-> candidate.provider_id, provider_name |-> candidate.provider_name,
   available_slots |-> Take(slots, 10), slots_count |-> Len(slots),
   service_id |-> candidate.service_id, service_name |-> candidate.service_name,
   price |-> candidate.price, rating |-> candidate.rating,
   distance |-> candidate.distance, match_score |-> candidate.match_score,
   overall_score |-> None, recommendation_reason |-> None]

\* the body of the loop over the candidates (105-244) for one candidate
candidate_slots(db, candidate, preferences, service_duration, date_range, all_bookings) ==
  candidate_info(
    candidate,
    validated_slots(
      slot_finder(IF TruthyStr(preferences.preferred_date) THEN preferences.preferred_date[1]
                  ELSE "any",
                  preferences.preferred_time, preferences.time_constraint, service_duration,
                  filter_by_working_hours(
                    calculate_available_slots(date_range.start, date_range.end, all_bookings),
                    working_hours_checker(db, candidate.provider_id))),
      service_duration, all_bookings))

\* the loop over the candidates and the sort by the number of slots (105-249)
candidates_with_slots(db, candidates, preferences, service_duration, date_range) ==
  LET checked == [i \in 1..Len(candidates) |->
                    candidate_slots(db, candidates[i], preferences, service_duration,
                                    date_range,
                                    booked_times(db, candidates[i].provider_id, date_range))]
      with_slots == SelectSeq(checked, LAMBDA c : c.slots_count > 0)
  IN SortByKey(with_slots, [i \in 1..Len(with_slots) |-> 0 - with_slots[i].slots_count])

availability_result(status, candidates) ==
  [candidates_with_slots |-> candidates, providers_available |-> Len(candidates),
   status |-> status]

\* the try body of execute (89-276) and its handler (278-291); with the
\* fault "availability" the session of the store cannot be opened
availability_found(outcome) ==
  IF outcome = Raise THEN availability_result("error", <<>>)
  ELSE availability_result(IF outcome[1] = <<>> THEN "no_availability" ELSE "success",
                           outcome[1])

\* preferences carries preferred_date, preferred_time, time_constraint and
\* time_urgency of the call
availability_agent(db, now, candidates, preferences, service_duration, fault) ==
  availability_found(
    IF fault = "availability" THEN Raise
    ELSE Return(candidates_with_slots(
                  db, candidates, preferences, service_duration,
                  get_date_range(now, preferences.time_urgency, preferences.preferred_date))))

(***************************************************************************)
(* RankingAgent.execute                                                     *)
(***************************************************************************)

\* the weighted score (308-335), in hundredths of a point: rating 40%,
\* price 30%, availability 20%, and the neutral distance score, 10%
\* candidate.get("distance_miles", 0) (323): the distance in hundredths of a
\* mile, 0 for a candidate without that key
distance_miles(candidate) ==
  IF "distance_miles" \in DOMAIN candidate /\ candidate.distance_miles # None
    THEN candidate.distance_miles[1]
  ELSE 0

overall_score(candidate, budget_max) ==
  Round(240 * candidate.rating
          + (IF candidate.price <= budget_max THEN 9000 ELSE 0)
          + 2000 * Min(Len(candidate.available_slots), 3)
          + (IF distance_miles(candidate) # 0
               THEN Max(3000 - 3 * distance_miles(candidate), 0)
             ELSE 1500),
        3)

\* the explanation (337-355)
recommendation_reason(candidate, budget_max) ==
  LET explanation_parts ==
        (IF candidate.rating >= 45 THEN <<"Top-rated">> ELSE <<>>)
          \o (IF candidate.price <= budget_max THEN <<"Within budget">> ELSE <<>>)
          \o (IF Len(candidate.available_slots) > 0 THEN <<"Available">> ELSE <<>>)
  IN IF explanation_parts = <<>> THEN "Good match" ELSE JoinComma(explanation_parts)

\* the scored candidates, the best first (306-359)
rank_candidates(candidates, budget_max) ==
  LET scored == [i \in 1..Len(candidates) |->
                   [candidates[i] EXCEPT
                      !.overall_score = Some(overall_score(candidates[i], budget_max)),
                      !.recommendation_reason =
                        Some(recommendation_reason(candidates[i], budget_max))]]
  IN SortByKey(scored, [i \in 1..Len(scored) |-> 0 - scored[i].overall_score[1]])

\* the try body of execute (302-364): the comparison of a price with a
\* budget_max of None raises, as does the fault "ranking"
ranking_try(candidates, user_preferences, fault) ==
  IF fault = "ranking" THEN Raise
  ELSE IF candidates # <<>> /\ user_preferences.budget_max = None THEN Raise
  ELSE Return(rank_candidates(Take(candidates, 10), user_preferences.budget_max[1]))

\* the handler of execute (366-375): the candidates as they came
ranking_except(outcome, candidates) ==
  IF outcome = Raise
    THEN [ranked_providers |-> Take(candidates, 10), status |-> "error"]
  ELSE [ranked_providers |-> outcome[1], status |-> "success"]

ranking_agent(candidates, user_preferences, fault) ==
  ranking_except(ranking_try(candidates, user_preferences, fault), candidates)

(***************************************************************************)
(* MatchingCrew.run_matching_and_ranking: matchAndRank                      *)
(***************************************************************************)

matching_response(ranked_options, total_options_found, search_summary) ==
  [ranked_options |-> ranked_options, total_options_found |-> total_options_found,
   search_summary |-> search_summary]

\* the ranked options (300-341); relevance_score is in hundredths
format_options(ranked_providers, service_type) ==
  [i \in 1..Min(10, Len(ranked_providers)) |->
     [rank |-> i,
      merchant_id |-> ranked_providers[i].provider_id,
      merchant_name |-> ranked_providers[i].provider_name,
      service_name |-> ranked_providers[i].service_name,
      service_type |-> service_type,
      distance |-> IF distance_miles(ranked_providers[i]) # 0
                     THEN Some(Round(distance_miles(ranked_providers[i]), 10))
                   ELSE None,
      price |-> ranked_providers[i].price,
      rating |-> ranked_providers[i].rating,
      available_times |->
        [k \in 1..Min(5, Len(ranked_providers[i].available_slots)) |->
           ranked_providers[i].available_slots[k].time],
      why_recommended |->
        IF ranked_providers[i].recommendation_reason = None
          THEN "Great match for your needs"
        ELSE ranked_providers[i].recommendation_reason[1],
      relevance_score |->
        IF ranked_providers[i].overall_score = None THEN 0
        ELSE Round(ranked_providers[i].overall_score[1], 100)]]

\* the successful response (336-347); the star of the summary is written *
matching_formatted(ranked_options) ==
  matching_response(ranked_options, Len(ranked_options),
                    "Found " \o Str(Len(ranked_options)) \o " excellent matches! Top choice: "
                      \o ranked_options[1].merchant_name
                      \o " ($" \o money_repr(ranked_options[1].price)
                      \o ", " \o rating_repr(ranked_options[1].rating) \o "*)")

\* Step 3 (286-347): ranking
matching_ranked(preferences, available_count, ranking_result) ==
  IF ranking_result.ranked_providers = <<>>
    THEN matching_response(<<>>, available_count,
                           "Found " \o Str(available_count)
                             \o " available providers but couldn't rank them.")
  ELSE matching_formatted(format_options(ranking_result.ranked_providers,
                                         preferences.service_type))

\* Step 2 answering a lack of free slots like a lack of candidates
matching_availability_merged(preferences, candidate_count, availability, fault) ==
  IF availability.providers_available = 0
    THEN matching_response(<<>>, 0,
                           "No providers found. Try adjusting your budget or location.")
  ELSE matching_ranked(preferences, availability.providers_available,
                       ranking_agent(availability.candidates_with_slots,
                                     preferences, fault))

\* Step 2 (256-284): availability
matching_availability(preferences, candidate_count, availability, fault) ==
  IF availability.providers_available = 0
    THEN matching_response(<<>>, candidate_count,
                           "Found " \o Str(candidate_count)
                             \o " providers, but none have availability. Try selecting flexible timing.")
  ELSE matching_ranked(preferences, availability.providers_available,
                       ranking_agent(availability.candidates_with_slots,
                                     preferences, fault))

\* the service duration that AvailabilityAgent.execute takes by default
DefaultServiceDuration == 30

\* Step 1 (226-254): the candidates
matching_candidates(db, now, preferences, matching_result, fault) ==
  IF matching_result.status # "success"
    THEN matching_response(<<>>, 0, matching_result.message)
  ELSE IF matching_result.candidate_count = 0
    THEN matching_response(<<>>, 0,
                           "No providers found. Try adjusting your budget or location.")
  ELSE matching_availability(preferences, matching_result.candidate_count,
                             availability_agent(db, now, matching_result.candidates,
                                                preferences, DefaultServiceDuration, fault),
                             fault)

\* the handler of run_matching_and_ranking (349-357)
match_and_rank_except(outcome) ==
  IF outcome = Raise
    THEN Return(matching_response(<<>>, 0, "An error occurred during matching: fault"))
  ELSE outcome

\* the faults of a matching run: none, or the stage in which an exception is
\* raised ("crew": in the body of run_matching_and_ranking itself)
MatchFaults == {"none", "matching", "availability", "ranking", "crew"}

\* the outcome of a call of run_matching_and_ranking
match_and_rank(db, now, preferences, fault) ==
  match_and_rank_except(
    IF fault = "crew" THEN Raise
    ELSE Return(matching_candidates(db, now, preferences,
                                    matching_agent(db, now, preferences, fault), fault)))

(***************************************************************************)
(* chat_preferences (routers/preferences.py): one turn of the chat          *)
(* endpoint.  The session keeps the preferences between the turns; it has   *)
(* no location column.                                                      *)
(***************************************************************************)

EmptySession ==
  [service_type |-> None, budget_min |-> None, budget_max |-> None,
   time_urgency |-> None, preferred_date |-> None, preferred_time |-> None,
   time_constraint |-> None, artisan_preference |-> None, special_notes |-> None,
   ready_to_match |-> FALSE]

\* Step 2 (93-106), and the PreferenceSchema of Step 9 (237-258): a budget
\* bound is read as float(x) if x else None
session_preferences(s) ==
  [service_type |-> s.service_type,
   budget_min |-> IF TruthyNum(s.budget_min) THEN s.budget_min ELSE None,
   budget_max |-> IF TruthyNum(s.budget_max) THEN s.budget_max ELSE None,
   time_urgency |-> s.time_urgency, artisan_preference |-> s.artisan_preference,
   special_notes |-> s.special_notes, preferred_date |-> s.preferred_date,
   preferred_time |-> s.preferred_time, time_constraint |-> s.time_constraint,
   location |-> None]

\* Step 6 (199-220): a column is written when the new value is truthy
session_update(s, updated_preferences, ready_to_match) ==
  [service_type |-> IF TruthyStr(updated_preferences.service_type)
                      THEN updated_preferences.service_type ELSE s.service_type,
   budget_min |-> IF TruthyNum(updated_preferences.budget_min)
                    THEN updated_preferences.budget_min ELSE s.budget_min,
   budget_max |-> IF TruthyNum(updated_preferences.budget_max)
                    THEN updated_preferences.budget_max ELSE s.budget_max,
   time_urgency |-> IF TruthyStr(updated_preferences.time_urgency)
                      THEN updated_preferences.time_urgency ELSE s.time_urgency,
   preferred_date |-> IF TruthyStr(updated_preferences.preferred_date)
                        THEN updated_preferences.preferred_date ELSE s.preferred_date,
   preferred_time |-> IF TruthyStr(updated_preferences.preferred_time)
                        THEN updated_preferences.preferred_time ELSE s.preferred_time,
   time_constraint |-> IF TruthyStr(updated_preferences.time_constraint)
                         THEN updated_preferences.time_constraint ELSE s.time_constraint,
   artisan_preference |-> IF TruthyStr(updated_preferences.artisan_preference)
                            THEN updated_preferences.artisan_preference
                          ELSE s.artisan_preference,
   special_notes |-> IF TruthyStr(updated_preferences.special_notes)
                       THEN updated_preferences.special_notes ELSE s.special_notes,
   ready_to_match |-> ready_to_match]

\* the seconds that the matching phase is given (160)
MatchingTimeout == 60

\* a matching phase that starts from an empty result list, which a timeout
\* leaves in the response
router_matching_final(ai_response, outcome, timing) ==
  IF timing = "timeout" \/ outcome = Raise \/ outcome[1].ranked_options = <<>>
    THEN [response |-> ai_response
                         \o "\n\nI searched for matches but couldn't find any providers at the moment. You might want to try adjusting your preferences.",
          ranked_matches |-> Some(<<>>), total_matches_found |-> Some(0),
          search_summary |-> Some("")]
  ELSE [response |-> ai_response \o "\n\n" \o outcome[1].search_summary \o "\n\nI found "
                       \o Str(outcome[1].total_options_found) \o " great options for you!",
        ranked_matches |-> Some(outcome[1].ranked_options),
        total_matches_found |-> Some(outcome[1].total_options_found),
        search_summary |-> Some(outcome[1].search_summary)]

\* Step 5.5 (134-197): the matching phase of a ready turn.  timing is
\* "completes", or "timeout" when wait_for gives up after MatchingTimeout
\* seconds; outcome is the outcome of matching_crew.run
router_matching(ai_response, outcome, timing) ==
  IF timing = "timeout"
    THEN [response |-> ai_response
                         \o "\n\nFinding matches is taking longer than expected. Please click 'See Matches' to view your results.",
          ranked_matches |-> None, total_matches_found |-> None, search_summary |-> None]
  ELSE IF outcome = Raise
    THEN [response |-> ai_response
                         \o "\n\nI'm ready to find matches for you! Click 'See Matches' to view your results.",
          ranked_matches |-> None, total_matches_found |-> None, search_summary |-> None]
  ELSE IF outcome[1].ranked_options # <<>>
    THEN [response |-> ai_response \o "\n\n" \o outcome[1].search_summary \o "\n\nI found "
                         \o Str(outcome[1].total_options_found) \o " great options for you!",
          ranked_matches |-> Some(outcome[1].ranked_options),
          total_matches_found |-> Some(outcome[1].total_options_found),
          search_summary |-> Some(outcome[1].search_summary)]
  ELSE [response |-> ai_response
                       \o "\n\nI searched for matches but couldn't find any providers at the moment. You might want to try adjusting your preferences.",
        ranked_matches |-> Some(outcome[1].ranked_options),
        total_matches_found |-> Some(outcome[1].total_options_found),
        search_summary |-> Some(outcome[1].search_summary)]

\* the matching phase of a turn that is not ready: none
no_matching(ai_response) ==
  [response |-> ai_response, ranked_matches |-> None, total_matches_found |-> None,
   search_summary |-> None]

\* Step 9 (237-258): the ChatResponse
chat_response(s, crew_result, matching) ==
  [success |-> TRUE,
   preferences |-> session_preferences(s),
   response |-> matching.response,
   ready_to_match |-> crew_result.ready_to_match,
   next_question |-> crew_result.next_question,
   ranked_matches |-> matching.ranked_matches,
   total_matches_found |-> matching.total_matches_found,
   search_summary |-> matching.search_summary]

\* the handler of chat_preferences (264-274): the turn fails with status 500
http_500 ==
  [success |-> FALSE, preferences |-> session_preferences(EmptySession), response |-> "",
   ready_to_match |-> FALSE, next_question |-> None, ranked_matches |-> None,
   total_matches_found |-> None, search_summary |-> None]

\* the matching phase for the result of the crew (123-197); the
\* preferences handed to the matching crew have no location
chat_matching(db, now, crew_result, timing) ==
  IF crew_result.ready_to_match
    THEN router_matching(crew_result.response_to_user,
                         match_and_rank(db, now,
                                        [crew_result.extracted_preferences
                                           EXCEPT !.location = None],
                                        "none"),
                         timing)
  ELSE no_matching(crew_result.response_to_user)

(***************************************************************************)
(* The modelled provider stores and the modelled calls                      *)
(***************************************************************************)

Merchants ==
  <<[id |-> "m1", business_name |-> "Shear Bliss", service_category |-> "Hair Salon",
     rating |-> 48, is_verified |-> TRUE, city |-> "Boston",
     location_lat |-> Some(42367336), location_lon |-> Some(-71094200),
     business_hours |-> <<>>],
    [id |-> "m2", business_name |-> "Cut Above", service_category |-> "Barber",
     rating |-> 42, is_verified |-> TRUE, city |-> "Boston, MA",
     location_lat |-> Some(42504678), location_lon |-> Some(-71094200),
     business_hours |-> <<>>],
    [id |-> "m3", business_name |-> "Quick Clips", service_category |-> "Hair",
     rating |-> 46, is_verified |-> FALSE, city |-> "Cambridge",
     location_lat |-> None, location_lon |-> None,
     business_hours |-> <<>>]>>

Services ==
  <<[id |-> "s1", merchant_id |-> "m1", service_name |-> "Haircut", base_price |-> 5500,
     duration_minutes |-> 30, is_active |-> TRUE],
    [id |-> "s2", merchant_id |-> "m2", service_name |-> "Classic Cut", base_price |-> 6500,
     duration_minutes |-> 45, is_active |-> TRUE],
    [id |-> "s3", merchant_id |-> "m1", service_name |-> "Swedish Massage",
     base_price |-> 12000, duration_minutes |-> 60, is_active |-> TRUE],
    [id |-> "s4", merchant_id |-> "m3", service_name |-> "Haircut", base_price |-> 5000,
     duration_minutes |-> 30, is_active |-> TRUE]>>

Booking(merchant_id, booking_date, booking_time_start, booking_time_end, status) ==
  [merchant_id |-> merchant_id, booking_date |-> booking_date,
   booking_time_start |-> booking_time_start, booking_time_end |-> booking_time_end,
   status |-> status]

\* the bookings tables: none; both verified merchants booked out on days 1
\* and 4; scattered bookings of every status, one of them without end time
BookingTables ==
  {<<>>,
   <<Booking("m1", 1, 540, Some(1080), "confirmed"), Booking("m2", 1, 540, Some(1080), "pending"),
     Booking("m1", 4, 540, Some(1080), "pending"), Booking("m2", 4, 540, Some(1080), "confirmed")>>,
   <<Booking("m1", 1, 600, Some(660), "confirmed"), Booking("m1", 1, 855, Some(885), "pending"),
     Booking("m1", 2, 540, Some(1080), "cancelled"), Booking("m2", 1, 1020, Some(1065), "pending"),
     Booking("m2", 4, 540, None, "confirmed"), Booking("m1", 6, 720, Some(780), "completed")>>}

Stores ==
  {[merchants |-> Merchants, services |-> Services, bookings |-> b] : b \in BookingTables}

\* the store of the conversations: the scattered bookings
ConversationStore ==
  CHOOSE db \in Stores : \E i \in 1..Len(db.bookings) : db.bookings[i].status = "cancelled"

\* the preference records that matching is called with
MatchPreferences ==
  {[EmptyPreferences EXCEPT !.service_type = Some("haircut"), !.budget_min = Some(4800),
                            !.budget_max = Some(7200), !.time_urgency = Some("today")],
   [EmptyPreferences EXCEPT !.service_type = Some("haircut"), !.budget_min = Some(4800),
                            !.budget_max = Some(7200), !.time_urgency = Some("today"),
                            !.location = Some("Boston, MA")],
   [EmptyPreferences EXCEPT !.service_type = Some("haircut"), !.budget_min = Some(4800),
                            !.budget_max = Some(7200), !.time_urgency = Some("week"),
                            !.location = Some("Times Square, New York, NY")],
   [EmptyPreferences EXCEPT !.service_type = Some("haircut"), !.budget_min = Some(5000),
                            !.time_urgency = Some("ASAP")],
   [EmptyPreferences EXCEPT !.service_type = Some("haircut"), !.budget_min = Some(0),
                            !.budget_max = Some(2000), !.time_urgency = Some("week")],
   [EmptyPreferences EXCEPT !.service_type = Some("massage"), !.budget_max = Some(15000),
                            !.preferred_date = Some("2025-11-04"),
                            !.preferred_time = Some("15:00"),
                            !.time_constraint = Some("before")],
   [EmptyPreferences EXCEPT !.service_type = Some("haircut"), !.budget_max = Some(6000),
                            !.preferred_date = Some("2025-11-09")],
   [EmptyPreferences EXCEPT !.service_type = Some("nails"), !.budget_max = Some(5000),
                            !.time_urgency = Some("flexible")],
   [EmptyPreferences EXCEPT !.budget_max = Some(5000), !.time_urgency = Some("today")]}

\* the service durations that the resolver is called with
ServiceDurations == {30, 45, 90}

(***************************************************************************)
(* The state machines.  A client of the crews (test_complete_flow.py,       *)
(* chat_with_crew.py) keeps the preference record that the last turn        *)
(* returned, passes it to the next turn and, once a turn is ready, calls    *)
(* the matching crew with it.  The chat endpoint keeps the record in its    *)
(* session instead.                                                         *)
(***************************************************************************)

VARIABLES
  clock,      \* the instant of the calls
  store,      \* the provider store
  record,     \* the client's current preference record
  result,     \* the response of the last gatherPreferences call
  matches,    \* the response of the last matchAndRank call
  resolved,   \* the result of the last call of the availability resolver
  evaluated,  \* the result of the last call of the readiness evaluator
  raised,     \* an exception of the last call reached the client
  last,       \* None, or Some of the last call and its inputs
  turns,      \* the number of turns taken
  session,    \* the preference session of the chat endpoint
  response,   \* the last ChatResponse of the chat endpoint
  input,      \* None, or Some of the arguments that a tool was last applied to
  output      \* None, or Some of what the tool returned

vars == <<clock, store, record, result, matches, resolved, evaluated, raised, last, turns,
          session, response, input, output>>

\* the number of turns of a modelled conversation
MaxTurns == 3

NoResult ==
  [extracted_preferences |-> EmptyPreferences, response_to_user |-> "",
   ready_to_match |-> FALSE, next_question |-> None, asked |-> None]

NoMatches == matching_response(<<>>, 0, "")

NoAvailability == availability_result("", <<>>)

NoReadiness == [ready_to_match |-> FALSE, missing_fields |-> <<>>]

NoResponse == [http_500 EXCEPT !.success = TRUE]

NoEnv == [assistant |-> "", llm |-> "NONE", fault |-> "none"]

\* the environments a turn on a message is run in
EnvChoices(x) ==
  {[assistant |-> "", llm |-> r, fault |-> "none"] : r \in x.llm_replies}
    \cup {[assistant |-> a, llm |-> "NONE", fault |-> "none"] : a \in AssistantMessages \ {""}}
    \cup {[assistant |-> "", llm |-> "NONE", fault |-> f] : f \in Faults \ {"none"}}

\* the call that last records
Call(call, utterance, env, before, fault, timing, service_duration) ==
  Some([call |-> call, utterance |-> utterance, env |-> env, before |-> before,
        fault |-> fault, timing |-> timing, service_duration |-> service_duration])

\* no call has been made
Quiet ==
  /\ clock \in Clock
  /\ result = NoResult
  /\ matches = NoMatches
  /\ resolved = NoAvailability
  /\ evaluated = NoReadiness
  /\ raised = FALSE
  /\ last = None
  /\ turns = 0
  /\ session = EmptySession
  /\ response = NoResponse

\* the state before the first call
Start ==
  /\ Quiet
  /\ input = None
  /\ output = None

Init ==
  /\ Start
  /\ store = ConversationStore
  /\ record = EmptyPreferences

\* the client takes the outcome of a gatherPreferences call: the returned
\* record becomes the current one; an exception leaves it as it is
Respond(u, env, outcome) ==
  /\ raised' = (outcome = Raise)
  /\ result' = IF outcome = Raise THEN result ELSE outcome[1]
  /\ record' = IF outcome = Raise THEN record ELSE outcome[1].extracted_preferences
  /\ last' = Call("gather", u, env, record, "none", "", 0)
  /\ turns' = turns + 1
  /\ UNCHANGED <<clock, store, matches, resolved, evaluated, session, response,
                 input, output>>

\* one turn of the conversation
Chat(u, x) ==
  \E env \in EnvChoices(x) :
    /\ turns < MaxTurns
    /\ Respond(u, env, gather_preferences(x, env, record))

GatherTurn(u) == Chat(u, Extracted[u][clock])

\* the client takes the outcome of a matchAndRank call
Found(fault, outcome) ==
  /\ raised' = (outcome = Raise)
  /\ matches' = IF outcome = Raise THEN matches ELSE outcome[1]
  /\ last' = Call("match", "", NoEnv, record, fault, "", 0)
  /\ UNCHANGED <<clock, store, record, result, resolved, evaluated, turns, session, response,
                 input, output>>

\* the client has the matches found after a turn that is ready
FindMatches(fault) ==
  /\ last # None /\ last[1].call = "gather"
  /\ result.ready_to_match
  /\ Found(fault, match_and_rank(store, clock, record, fault))

\* the client starts a new conversation from the empty record
Reset ==
  /\ last # None
  /\ record' = EmptyPreferences
  /\ result' = NoResult
  /\ matches' = NoMatches
  /\ raised' = FALSE
  /\ last' = None
  /\ UNCHANGED <<clock, store, resolved, evaluated, turns, session, response, input, output>>

Next ==
  \/ \E u \in Corpus : GatherTurn(u)
  \/ \E fault \in MatchFaults : FindMatches(fault)
  \/ Reset

Spec == Init /\ [][Next]_vars

(***************************************************************************)
(* The matching crew and the availability resolver on the modelled stores   *)
(* and preference records                                                   *)
(***************************************************************************)

MatchInit ==
  /\ Start
  /\ store \in Stores
  /\ record \in MatchPreferences

MatchAndRank(fault) ==
  /\ last = None
  /\ Found(fault, match_and_rank(store, clock, record, fault))

\* the resolver is called with the candidates of the filter pipeline and a
\* service duration
Resolve(service_duration, matching_result) ==
  /\ resolved' = availability_agent(store, clock, matching_result.candidates, record,
                                    service_duration, "none")
  /\ last' = Call("resolve", "", NoEnv, record, "none", "", service_duration)
  /\ UNCHANGED <<clock, store, record, result, matches, evaluated, raised, turns, session,
                 response, input, output>>

CheckAvailability(service_duration) ==
  /\ last = None
  /\ Resolve(service_duration, matching_agent(store, clock, record, "none"))

MatchNext ==
  \/ \E fault \in MatchFaults : MatchAndRank(fault)
  \/ \E service_duration \in ServiceDurations : CheckAvailability(service_duration)

MatchSpec == MatchInit /\ [][MatchNext]_vars

(***************************************************************************)
(* The readiness evaluator on preference records                            *)
(***************************************************************************)

\* the values of the fields of the evaluated records
ReadinessInputs ==
  [service_type : {None, Some("haircut")},
   budget_min : {None, Some(0), Some(4800)},
   budget_max : {None, Some(7200)},
   time_urgency : {None, Some("today")},
   artisan_preference : {None, Some("female")},
   special_notes : {None},
   preferred_date : {None, Some("2025-11-06")},
   preferred_time : {None, Some("15:00")},
   time_constraint : {None, Some("before")},
   location : {None, Some("Boston, MA")}]

ReadinessInit ==
  /\ Start
  /\ store = ConversationStore
  /\ record \in ReadinessInputs

Evaluate ==
  /\ evaluated' = readiness_detector(record)
  /\ last' = Call("evaluate", "", NoEnv, record, "none", "", 0)
  /\ UNCHANGED <<clock, store, record, result, matches, resolved, raised, turns, session,
                 response, input, output>>

ReadinessNext == Evaluate

ReadinessSpec == ReadinessInit /\ [][ReadinessNext]_vars

(***************************************************************************)
(* The chat endpoint                                                        *)
(***************************************************************************)

\* the sessions that a modelled conversation with the endpoint starts from:
\* a new one, and one of two turns
Sessions ==
  {EmptySession,
   [EmptySession EXCEPT !.service_type = Some("haircut"), !.budget_min = Some(4800),
                        !.budget_max = Some(7200)]}

\* what the users of the endpoint say
RouterCorpus ==
  {"I need a haircut", "today in Boston", "I'm in cambridge", "at least $100",
   "thursday at 3pm in Boston"}

\* the environments of a turn of the endpoint: no fault, no suggestion
RouterEnv(x) == {env \in EnvChoices(x) : env.fault = "none" /\ env.assistant = ""}

\* the stores of the endpoint: those with bookings
RouterStores == {db \in Stores : db.bookings # <<>>}

Timings == {"completes", "timeout"}

RouterInit ==
  /\ clock \in Clock
  /\ store \in RouterStores
  /\ record = EmptyPreferences
  /\ result = NoResult
  /\ matches = NoMatches
  /\ resolved = NoAvailability
  /\ evaluated = NoReadiness
  /\ raised = FALSE
  /\ last = None
  /\ turns = 0
  /\ session \in Sessions
  /\ response = NoResponse
  /\ input = None
  /\ output = None

\* the endpoint answers with the result of the crew; an exception that
\* reaches it ends the turn with status 500 and the session rolled back
Answer(u, env, timing, outcome) ==
  /\ session' = IF outcome = Raise THEN session
                ELSE session_update(session, outcome[1].extracted_preferences,
                                    outcome[1].ready_to_match)
  /\ response' = IF outcome = Raise THEN http_500
                 ELSE chat_response(session', outcome[1],
                                    chat_matching(store, clock, outcome[1], timing))
  /\ last' = Call("chat", u, env, session_preferences(session), "none",
                  IF outcome # Raise /\ outcome[1].ready_to_match THEN timing ELSE "", 0)
  /\ turns' = turns + 1
  /\ UNCHANGED <<clock, store, record, result, matches, resolved, evaluated, raised,
                 input, output>>

ChatTurn(u, x) ==
  \E env \in RouterEnv(x), timing \in Timings :
    /\ turns < MaxTurns
    /\ Answer(u, env, timing, gather_preferences(x, env, session_preferences(session)))

ChatPreferences(u) == ChatTurn(u, Extracted[u][clock])

RouterNext == \E u \in RouterCorpus : ChatPreferences(u)

RouterSpec == RouterInit /\ [][RouterNext]_vars

(***************************************************************************)
(* The budget filter on the modelled bounds and services                    *)
(***************************************************************************)

\* the call of a tool that last records
Applied(tool) == Some([call |-> tool])

\* the tool has been applied to its arguments
Apply(tool, value) ==
  /\ input # None /\ output = None
  /\ output' = Some(value)
  /\ last' = Applied(tool)
  /\ UNCHANGED <<clock, store, record, result, matches, resolved, evaluated, raised, turns,
                 session, response, input>>

\* prices in cents: around nine tenths of $47 and eleven tenths of $60
BudgetPrices == {4229, 4230, 4500, 6600, 6601, 6660}

\* the service lists: at most MaxServices services of the modelled prices
MaxServices == 2

BudgetServices ==
  UNION {[1..n -> {[service_id |-> "s", base_price |-> p] : p \in BudgetPrices}] :
           n \in 0..MaxServices}

BudgetInputs ==
  [budget_min : {None, Some(0), Some(4700), Some(5000)},
   budget_max : {None, Some(6000)},
   services : BudgetServices]

\* a tool is about to be applied to the arguments
Arguments(inputs) ==
  /\ Quiet
  /\ store = ConversationStore
  /\ record = EmptyPreferences
  /\ input \in {Some(i) : i \in inputs}
  /\ output = None

BudgetInit == Arguments(BudgetInputs)

BudgetFilter ==
  Apply("budget_filter",
        budget_filter(input[1].budget_min, input[1].budget_max, input[1].services))

BudgetNext == BudgetFilter

BudgetSpec == BudgetInit /\ [][BudgetNext]_vars

(***************************************************************************)
(* The location stage on the modelled coordinates                           *)
(***************************************************************************)

\* a provider as the location filter reads it; the key distance_miles is
\* absent from a dict that the filter has not written
Provider(id, location_lat, location_lon) ==
  [id |-> id, location_lat |-> location_lat, location_lon |-> location_lon,
   distance_miles |-> None]

\* providers due north of the first user location, at 0.5, 1.004, 1.001, 9.99
\* and 10.5 miles, and one without coordinates
Providers ==
  {Provider("a", Some(42367336), Some(-71094200)),
   Provider("b", Some(42374630), Some(-71094200)),
   Provider("c", Some(42374587), Some(-71094200)),
   Provider("d", Some(42504678), Some(-71094200)),
   Provider("e", Some(42512059), Some(-71094200)),
   Provider("f", None, None)}

\* the provider lists: at most MaxProviders providers
MaxProviders == 2

\* a user in Cambridge, one on the equator, one on the prime meridian, one
\* whose latitude is unknown, and no user location
UserLocations ==
  {Some([lat |-> Some(42360100), lon |-> Some(-71094200)]),
   Some([lat |-> Some(0), lon |-> Some(-71094200)]),
   Some([lat |-> Some(42360100), lon |-> Some(0)]),
   Some([lat |-> None, lon |-> Some(-71094200)]),
   None}

LocationInputs ==
  [user_location : UserLocations,
   max_distance : {100000, 10000},
   providers : UNION {[1..n -> Providers] : n \in 0..MaxProviders}]

LocationInit == Arguments(LocationInputs)

LocationStage ==
  Apply("matching_location",
        matching_location(input[1].user_location, input[1].max_distance,
                          input[1].providers))

LocationNext == LocationStage

LocationSpec == LocationInit /\ [][LocationNext]_vars

(***************************************************************************)
(* RankingAgent.execute on lists of candidates                             *)
(***************************************************************************)

\* the candidate at a place of the input list: its place is its provider_id,
\* "high" is rated 4.8 and "low" 4.0, both cost $50 and have one free slot
Candidate(place, kind) ==
  candidate_info([provider_id |-> place, provider_name |-> kind,
                  service_id |-> "s", service_name |-> "Haircut",
                  price |-> 5000, rating |-> IF kind = "high" THEN 48 ELSE 40,
                  distance |-> None, match_score |-> 0],
                 <<[time |-> "10:00"]>>)

\* the candidate lists: at most MaxCandidates candidates
MaxCandidates == 11

RankingInputs ==
  {[candidates |-> [i \in 1..n |-> Candidate(i, kinds[i])],
    user_preferences |-> [budget_max |-> budget_max]] :
     <<n, kinds, budget_max>> \in
       {<<n, kinds, budget_max>> \in
          (0..MaxCandidates) \X [1..MaxCandidates -> {"high", "low"}] \X {Some(6000), None} :
            \A i \in (n + 1)..MaxCandidates : kinds[i] = "low"}}

RankingInit == Arguments(RankingInputs)

\* the runs on one list: at most MaxRuns runs
MaxRuns == 2

\* a run that keeps the list ranked_providers of the run before it
Ranking_accumulating ==
  /\ input # None
  /\ turns < MaxRuns
  /\ turns' = turns + 1
  /\ clock' \in Clock
  /\ output' =
       LET ranked == ranking_agent(input[1].candidates, input[1].user_preferences, "none")
       IN Some(IF output = None THEN ranked
               ELSE [ranked EXCEPT !.ranked_providers = output[1].ranked_providers \o @])
  /\ last' = Applied("ranking_agent")
  /\ UNCHANGED <<store, record, result, matches, resolved, evaluated, raised, session,
                 response, input>>

\* a run of execute on the arguments, at any time; turns counts the runs
Ranking ==
  /\ input # None
  /\ turns < MaxRuns
  /\ turns' = turns + 1
  /\ clock' \in Clock
  /\ output' = Some(ranking_agent(input[1].candidates, input[1].user_preferences, "none"))
  /\ last' = Applied("ranking_agent")
  /\ UNCHANGED <<store, record, result, matches, resolved, evaluated, raised, session,
                 response, input>>

RankingNext == Ranking

RankingSpec == RankingInit /\ [][RankingNext]_vars

(***************************************************************************)
(* PreferenceExtractorTool._extract_datetime_details on utterances that    *)
(* name a weekday, on each day of a week                                   *)
(***************************************************************************)

\* the ways of naming a day
DayUtterances(day_name) ==
  {day_name, "next " \o day_name, "before next " \o day_name,
   day_name \o " before 3pm", "by " \o day_name, day_name \o " after 5pm",
   "maybe " \o day_name}

DateInputs ==
  [text : UNION {DayUtterances(days_of_week[k]) : k \in 1..7},
   now : {[day |-> d, hour |-> 10] : d \in 0..6}]

DateInit == Arguments(DateInputs)

ExtractDatetime ==
  Apply("extract_datetime_details",
        extract_datetime_details(input[1].text, input[1].now))

DateNext == ExtractDatetime

DateSpec == DateInit /\ [][DateNext]_vars

(***************************************************************************)
(* PreferenceExtractorTool._extract_budget on utterances that state a       *)
(* budget                                                                   *)
(***************************************************************************)

\* amounts as they are written, with their values in cents
WrittenAmounts ==
  {<<"5", 500>>, <<"20", 2000>>, <<"30", 3000>>, <<"45.50", 4550>>, <<"60", 6000>>,
   <<"80", 8000>>, <<"100", 10000>>}

\* the utterance, its form and the amounts that it states
StatedBudget(text, form, x, y) == [text |-> text, form |-> form, x |-> x, y |-> y]

BudgetTextInputs ==
  {StatedBudget("around $" \o a[1], "around", a[2], a[2]) : a \in WrittenAmounts}
    \cup {StatedBudget("up to $" \o a[1], "up to", a[2], a[2]) : a \in WrittenAmounts}
    \cup {StatedBudget("$" \o p[1][1] \o "-$" \o p[2][1], "range", p[1][2], p[2][2]) :
            p \in WrittenAmounts \X WrittenAmounts}
    \cup {StatedBudget("$" \o p[1][1] \o " to $" \o p[2][1], "range", p[1][2], p[2][2]) :
            p \in WrittenAmounts \X WrittenAmounts}

BudgetTextInit == Arguments(BudgetTextInputs)

ExtractBudget == Apply("extract_budget", extract_budget(input[1].text))

BudgetTextNext == ExtractBudget

BudgetTextSpec == BudgetTextInit /\ [][BudgetTextNext]_vars

(***************************************************************************)
(* PreferenceExtractorTool._extract_budget on utterances that hold a range  *)
(* of two numbers                                                           *)
(***************************************************************************)

\* the pairs of numbers of a range, as written and in cents
WrittenRanges ==
  {<<"9", "5", 500, 900>>, <<"2", "4", 200, 400>>, <<"10", "20", 1000, 2000>>,
   <<"20", "23", 2000, 2300>>, <<"23", "24", 2300, 2400>>, <<"10", "30", 1000, 3000>>,
   <<"50", "80", 5000, 8000>>}

\* what stands before the range, with whether it signals a time and
\* whether it is a currency sign
RangePrefixes ==
  {<<"", FALSE, FALSE>>, <<"available ", TRUE, FALSE>>, <<"between ", TRUE, FALSE>>,
   <<"$", FALSE, TRUE>>, <<"between $", TRUE, TRUE>>}

\* what stands after the range, with whether it signals a time and whether
\* it is a budget keyword
RangeSuffixes ==
  {<<"", FALSE, FALSE>>, <<" pm", TRUE, FALSE>>, <<" hours", TRUE, FALSE>>,
   <<" dollars", FALSE, TRUE>>}

\* the utterance, the smaller and the larger number of its range, whether
\* a time is signalled next to the range, and whether a currency sign or a
\* budget keyword is present
StatedRange(text, smaller, larger, timed, keyword) ==
  [text |-> text, smaller |-> smaller, larger |-> larger, timed |-> timed,
   keyword |-> keyword]

\* what joins the two numbers, with whether it holds a currency sign
RangeJoiners == {<<"-", FALSE>>, <<" to ", FALSE>>, <<"-$", TRUE>>}

RangeInputs ==
  {StatedRange(p[1] \o r[1] \o j[1] \o r[2] \o q[1], r[3], r[4],
               p[2] \/ q[2], p[3] \/ j[2] \/ q[3]) :
     <<p, r, j, q>> \in RangePrefixes \X WrittenRanges \X RangeJoiners \X RangeSuffixes}
    \cup {StatedRange("available between 9 and 5", 500, 900, TRUE, FALSE)}

RangeInit == Arguments(RangeInputs)

RangeNext == ExtractBudget

RangeSpec == RangeInit /\ [][RangeNext]_vars

(***************************************************************************)
(* SlotFinderTool.execute on the free slots of a calendar                   *)
(***************************************************************************)

\* the preferred date, a Thursday, and the times of its calendar that the
\* slot lists are drawn from: 13:00 to 15:30
PreferredDay == strptime("2025-11-06")

SlotTimes == <<780, 810, 840, 870, 900, 930>>

SlotStarts == {SlotTimes[k] : k \in 1..Len(SlotTimes)}

\* the free slots in the order of the calendar: those of the preferred day
\* that start at the given times, then one of the next day or none
FreeSlots(starts, next_day) ==
  LET times == SelectSeq(SlotTimes, LAMBDA t : t \in starts)
  IN [k \in 1..Len(times) |-> [day |-> PreferredDay, start |-> times[k]]]
       \o (IF next_day THEN <<[day |-> PreferredDay + 1, start |-> 840]>> ELSE <<>>)

SlotInputs ==
  {[preferred_date |-> isoformat(PreferredDay),
    preferred_time |-> Some(hhmm(t)),
    time_constraint |-> Some(c),
    service_duration |-> d,
    available_slots |-> FreeSlots(starts, next_day)] :
     <<t, c, d, starts, next_day>> \in
       {840, 900} \X {"before", "after", "by"} \X {30, 45, 60}
         \X (SUBSET SlotStarts) \X BOOLEAN}

SlotInit == Arguments(SlotInputs)

SlotFinder ==
  Apply("slot_finder",
        slot_finder(input[1].preferred_date, input[1].preferred_time,
                    input[1].time_constraint, input[1].service_duration,
                    input[1].available_slots))

SlotNext == SlotFinder

SlotSpec == SlotInit /\ [][SlotNext]_vars

(***************************************************************************)
(* The extractor, the merge and the readiness detector on a record and an   *)
(* utterance that gives a time, as test_time_recognition.py runs them       *)
(***************************************************************************)

TimeSignals == {"before next thursday", "before next thursday 3 pm", "next thursday"}

\* the records that hold a service type, one budget bound and perhaps a
\* location
PriorRecords ==
  {[EmptyPreferences EXCEPT !.service_type = Some(service), !.budget_min = bounds[1],
                            !.budget_max = bounds[2], !.location = location] :
     <<service, bounds, location>> \in
       {"haircut", "massage"} \X {<<None, Some(5000)>>, <<Some(3000), None>>}
         \X {None, Some("Boston, MA")}}

TimeSignalInputs ==
  [message : TimeSignals,
   current_prefs : PriorRecords,
   now : {[day |-> d, hour |-> 10] : d \in 0..6}]

TimeSignalInit == Arguments(TimeSignalInputs)

\* what the extractors that PreferenceExtractorTool.execute calls yield
extracted_from(message, now) ==
  [budget |-> extract_budget(message),
   time_urgency |-> extract_urgency(message),
   datetime |-> extract_datetime_details(message, now),
   artisan_preference |-> extract_artisan_preference(message),
   location |-> extract_location(message)]

\* one test case: extraction, merge and readiness check
TimeRecognition ==
  LET extraction == preference_extractor(extracted_from(input[1].message, input[1].now),
                                         input[1].current_prefs)
      merged_prefs == merge_preferences(extraction, input[1].current_prefs)
  IN Apply("time_recognition",
           [merged_prefs |-> merged_prefs, readiness |-> readiness_detector(merged_prefs)])

TimeSignalNext == TimeRecognition

TimeSignalSpec == TimeSignalInit /\ [][TimeSignalNext]_vars

(***************************************************************************)
(* The filter pipeline with a user location                                 *)
(***************************************************************************)

\* the stores of the pipeline: the modelled ones, and one whose first
\* merchant has eight bookings on day 1
PipelineStores ==
  Stores \cup
    {[merchants |-> Merchants, services |-> Services,
      bookings |-> [i \in 1..8 |->
                      Booking("m1", 1, 540 + 60 * (i - 1), Some(600 + 60 * (i - 1)),
                              "confirmed")]]}

PipelinePreferences ==
  MatchPreferences \cup
    {[EmptyPreferences EXCEPT !.service_type = Some("haircut"), !.budget_max = Some(5000),
                              !.time_urgency = Some("today")],
     [EmptyPreferences EXCEPT !.service_type = Some("haircut"), !.budget_max = Some(4600),
                              !.time_urgency = Some("week")]}

\* the distance limits: the default of 10 miles, and 0.4 miles
MaxDistances == {10 * 10000, 4 * 1000}

\* the first user location is half a mile from the first merchant and 9.99
\* miles from the second one; the third merchant has no coordinates
PipelineInputs ==
  [db : PipelineStores, now : Clock, preferences : PipelinePreferences,
   user_location : UserLocations, max_distance : MaxDistances]

PipelineInit == Arguments(PipelineInputs)

\* run_matching_and_ranking with a user location: the result of the
\* matching agent and the response that the crew makes of it
RunMatchingAndRanking ==
  LET matching_result ==
        matching_execute(input[1].db, input[1].now, input[1].preferences,
                         input[1].user_location, input[1].max_distance, "none")
  IN Apply("run_matching_and_ranking",
           [matching_result |-> matching_result,
            response |-> matching_candidates(input[1].db, input[1].now,
                                             input[1].preferences, matching_result,
                                             "none")])

PipelineNext == RunMatchingAndRanking

PipelineSpec == PipelineInit /\ [][PipelineNext]_vars

(***************************************************************************)

(* The preference phase of both crews on records that a turn completes      *)
(***************************************************************************)

\* the records before the turn: a service, a location and two of the three
\* of lower bound, upper bound and urgency
GatheringRecords ==
  {[EmptyPreferences EXCEPT !.service_type = Some("haircut"),
                            !.location = Some("Boston, MA"),
                            !.budget_min = b[1], !.budget_max = b[2], !.time_urgency = t] :
     <<b, t>> \in {<<None, None>>, <<Some(4800), Some(7200)>>, <<None, Some(7200)>>}
                    \X {None, Some("today")}}

GatheringCorpus ==
  {"around $60", "at least $100", "$50", "$600", "before friday", "hello", "I need a haircut"}

GatheringInputs ==
  {[utterance |-> t[1], now |-> t[2], current_preferences |-> t[3], env |-> env] :
     <<t, env>> \in
       {<<t, env>> \in (GatheringCorpus \X Clock \X GatheringRecords)
                         \X {[assistant |-> "", llm |-> "NONE", fault |-> "none"]} :
          env \in EnvChoices(Extracted[t[1]][t[2]])}}

GatheringInit == Arguments(GatheringInputs)

\* one turn given to PreferenceCrew.run and to
\* MatchingCrew.run_preference_gathering
RunPreferenceGathering ==
  LET x == Extracted[input[1].utterance][input[1].now]
  IN Apply("run_preference_gathering",
           [run |-> gather_preferences(x, input[1].env, input[1].current_preferences)[1],
            gathering |-> run_preference_gathering(x, input[1].env,
                                                   input[1].current_preferences)])

GatheringNext == RunPreferenceGathering

GatheringSpec == GatheringInit /\ [][GatheringNext]_vars

(***************************************************************************)
(* The resolver over providers with stored business hours.                 *)
(***************************************************************************)

\* an entry of merchants.business_hours as the collection stores it of Yelp
YelpHours(day, start, end) == [day |-> day, start |-> start, end |-> end]

\* the first merchant with stored hours: Tuesday until a quarter to six,
\* Friday in two intervals, Saturday from half past nine, closed otherwise
StoredHours ==
  <<YelpHours(1, 900, 1745), YelpHours(4, 1000, 1400), YelpHours(4, 1500, 1900),
    YelpHours(5, 930, 1530)>>

HoursStores ==
  Stores \cup
    {[merchants |-> [Merchants EXCEPT ![1].business_hours = StoredHours],
      services |-> Services, bookings |-> b] : b \in BookingTables}

HoursInit ==
  /\ Start
  /\ store \in HoursStores
  /\ record \in MatchPreferences

HoursNext == \E service_duration \in ServiceDurations : CheckAvailability(service_duration)

HoursSpec == HoursInit /\ [][HoursNext]_vars

(***************************************************************************)
(* Turns on utterances that name no place.                                 *)
(***************************************************************************)

\* utterances that name a service, a budget, a time or nothing, and no place
NoPlaceCorpus ==
  {"I want a massage", "I need a haircut", "under $50", "tomorrow at 3pm", "makeup for friday",
   "many thanks", "hello", "manicure under $40"}

NoPlaceRecords ==
  {[EmptyPreferences EXCEPT !.location = location] :
     location \in {None, Some("Cambridge, MA"), Some("New York, NY")}}

\* what the tools of the pipeline read of an utterance of the corpus
NoPlaceExtracted ==
  Table([u \in NoPlaceCorpus |->
     Table([c \in Clock |->
        [service_type |-> parse_intent(u),
         budget |-> extract_budget(u),
         time_urgency |-> extract_urgency(u),
         datetime |-> extract_datetime_details(u, c),
         artisan_preference |-> extract_artisan_preference(u),
         location |-> extract_location(u),
         has_location_signal |-> has_location_signal(u),
         llm_replies |-> llm_replies(u),
         acceptance |->
           Table([a \in AssistantMessages |->
                    detect_time_suggestion_acceptance(u, a, c)])]])])

NoPlaceInputs ==
  {[utterance |-> t[1], now |-> t[2], current_preferences |-> t[3],
    env |-> [assistant |-> "", llm |-> reply, fault |-> "none"]] :
     <<t, reply>> \in
       {<<t, reply>> \in (NoPlaceCorpus \X Clock \X NoPlaceRecords) \X {"NONE", "ERROR"} :
          reply \in NoPlaceExtracted[t[1]][t[2]].llm_replies}}

NoPlaceInit == Arguments(NoPlaceInputs)

\* one turn of the conversation agent, with what the rule-based location
\* extractor yields for the utterance
NoPlaceTurn ==
  LET x == NoPlaceExtracted[input[1].utterance][input[1].now]
  IN Apply("conversation_turn",
           [location |-> x.location,
            turn |-> conversation_agent(x, input[1].env, input[1].current_preferences)])

NoPlaceNext == NoPlaceTurn

NoPlaceSpec == NoPlaceInit /\ [][NoPlaceNext]_vars

(***************************************************************************)
(* Properties.  They are stated over the last call and its inputs, which    *)
(* the variable last records.                                               *)
(***************************************************************************)

LastCall == last[1]

Gathered == last # None /\ LastCall.call = "gather"

RequiredFields ==
  {"service_type", "budget_min", "budget_max", "time_urgency", "preferred_date",
   "preferred_time", "time_constraint", "location"}

\* the value that the language model's reply gives the location of a turn
LlmLocation(x, env) == extract_location_with_llm(x.has_location_signal, env.llm, None)

\* the turn on x in env yields a value for the field: from the utterance
\* itself, from the suggestion that the utterance accepts, or from the
\* language model's reading of the utterance
Yields(x, env, field) ==
  LET time_acceptance == x.acceptance[env.assistant]
  IN CASE field = "service_type" -> TruthyStr(x.service_type)
       [] field = "budget_min" -> x.budget.budget_min # None
       [] field = "budget_max" -> x.budget.budget_max # None
       [] field = "time_urgency" -> TruthyStr(x.time_urgency)
       [] field = "preferred_date" ->
            \/ TruthyStr(x.datetime.preferred_date)
            \/ time_acceptance.accepted /\ TruthyStr(time_acceptance.suggested_date)
       [] field = "preferred_time" ->
            \/ TruthyStr(x.datetime.preferred_time)
            \/ time_acceptance.accepted /\ TruthyStr(time_acceptance.suggested_time)
       [] field = "time_constraint" -> TruthyStr(x.datetime.time_constraint)
       [] field = "location" -> TruthyStr(x.location) \/ TruthyStr(LlmLocation(x, env))

\* the turn yields the ambiguous-location marker
YieldsAmbiguous(x, env) ==
  IF TruthyStr(LlmLocation(x, env)) THEN is_ambiguous(LlmLocation(x, env))
  ELSE is_ambiguous(x.location)

LastYields(field) == Yields(Extracted[LastCall.utterance][clock], LastCall.env, field)

Resolved == last # None /\ LastCall.call = "resolve"

\* the offered slots and the bookings that they must not overlap: the
\* candidate, the slot's start in minutes since day 0, and the booking
OfferedAgainstBooked ==
  {[candidate |-> resolved.candidates_with_slots[i],
    slot_start |-> 1440 * strptime(resolved.candidates_with_slots[i].available_slots[j].date)
                     + minutes_of(resolved.candidates_with_slots[i].available_slots[j].time),
    booking |-> store.bookings[k]] :
     <<i, j, k>> \in {t \in (1..Len(resolved.candidates_with_slots)) \X (1..10)
                               \X (1..Len(store.bookings)) :
                        /\ t[2] <= Len(resolved.candidates_with_slots[t[1]].available_slots)
                        /\ store.bookings[t[3]].merchant_id
                             = resolved.candidates_with_slots[t[1]].provider_id
                        /\ store.bookings[t[3]].status \in {"confirmed", "pending"}}}

BookingStart(b) == 1440 * b.booking_date + b.booking_time_start

\* the end of a booking; one hour after its start if none is recorded
BookingEnd(b) ==
  1440 * b.booking_date
    + (IF b.booking_time_end = None THEN b.booking_time_start + AssumedBookingMinutes
       ELSE b.booking_time_end[1])

\* C2: for every candidate that the availability resolver returns, every slot
\* it offers and every confirmed or pending booking of that provider, the
\* interval [slot start, slot start + service duration) does not overlap the
\* booking's interval [start, end).
C2_NoDoubleBooking ==
  Resolved =>
    \A o \in OfferedAgainstBooked :
      ~(/\ o.slot_start < BookingEnd(o.booking)
        /\ o.slot_start + LastCall.service_duration > BookingStart(o.booking))

\* the resolver offers a slot that ends at the minute a confirmed booking of
\* the provider begins, one that begins when it ends, and slots on a day on
\* which the provider has a pending booking
C2_Witness ==
  /\ Resolved
  /\ \E o \in OfferedAgainstBooked :
       /\ o.booking.status = "confirmed"
       /\ o.slot_start + LastCall.service_duration = BookingStart(o.booking)
  /\ \E o \in OfferedAgainstBooked :
       /\ o.booking.status = "confirmed"
       /\ o.slot_start = BookingEnd(o.booking)
  /\ \E o \in OfferedAgainstBooked :
       /\ o.booking.status = "pending"
       /\ o.slot_start \div 1440 = o.booking.booking_date

Evaluated == last # None /\ LastCall.call = "evaluate"

\* the requirements that a record leaves absent, in the order of priority
AbsentRequirements(prefs) ==
  SelectSeq(<<"service_type", "budget", "time_info", "location">>,
            LAMBDA f :
              CASE f = "service_type" -> prefs.service_type = None
                [] f = "budget" -> prefs.budget_min = None /\ prefs.budget_max = None
                [] f = "time_info" ->
                     /\ prefs.time_urgency = None /\ prefs.preferred_date = None
                     /\ prefs.preferred_time = None /\ prefs.time_constraint = None
                [] f = "location" -> prefs.location = None)

\* C3: the readiness evaluator lists exactly the absent requirements, in the
\* order service_type, budget, time-info, location (a budget is present when
\* either bound is non-null, time-info when any of urgency, date, time and
\* constraint is), reports ready exactly when the list is empty, and gives
\* the same result whatever the provider preference is.
C3_ReadinessExact ==
  Evaluated =>
    /\ evaluated.missing_fields = AbsentRequirements(record)
    /\ evaluated.ready_to_match = (AbsentRequirements(record) = <<>>)
    /\ evaluated = readiness_detector([record EXCEPT !.artisan_preference = None])

\* the records of the scenario after its first and its second turn
HaircutOnly == [EmptyPreferences EXCEPT !.service_type = Some("haircut")]

HaircutAround60 ==
  [HaircutOnly EXCEPT !.budget_min = Some(4800), !.budget_max = Some(7200)]

\* the last call was a turn on the utterance from the record, and nothing
\* failed in it
TurnOn(utterance, before) ==
  /\ Gathered
  /\ LastCall.utterance = utterance
  /\ LastCall.before = before
  /\ LastCall.env.fault = "none"

\* C4: from the empty record, "I need a haircut" returns the record with the
\* service type haircut only, "around $60" on that record adds the budget 48
\* to 72, neither turn being ready, and "today in Boston" on that record is
\* ready to match with service_type haircut, budget_min 48, budget_max 72,
\* time_urgency today and location "Boston, MA".
C4_HaircutScenario ==
  /\ TurnOn("I need a haircut", EmptyPreferences) =>
       record = HaircutOnly /\ ~result.ready_to_match
  /\ TurnOn("around $60", HaircutOnly) =>
       record = HaircutAround60 /\ ~result.ready_to_match
  /\ TurnOn("today in Boston", HaircutAround60) =>
       /\ result.ready_to_match
       /\ result.extracted_preferences = record
       /\ record.service_type = Some("haircut")
       /\ record.budget_min = Some(4800) /\ record.budget_max = Some(7200)
       /\ record.time_urgency = Some("today")
       /\ record.location = Some("Boston, MA")

\* the third turn of the scenario has been taken, as the third turn of the
\* conversation, and is ready
C4_Witness ==
  /\ TurnOn("today in Boston", HaircutAround60)
  /\ turns = 3
  /\ result.ready_to_match
  /\ record.location = Some("Boston, MA")

\* the utterances whose only location signal is the bare city name: the
\* word cambridge without a state word, a Boston or New York keyword, a
\* Cambridge-MA keyword or a named place
BareCambridge ==
  {u \in Corpus :
     LET text_lower == Lower(u)
         word(w) == re_search(WordPattern(w), text_lower) # None
     IN /\ word("cambridge")
        /\ ~word("ma") /\ ~word("massachusetts") /\ ~word("mass")
        /\ ~word("uk") /\ ~word("england") /\ ~word("british")
        /\ ~ContainsAny(boston_keywords, text_lower)
        /\ ~ContainsAny(cambridge_ma_keywords, text_lower)
        /\ ~ContainsAny(nyc_keywords, text_lower)
        /\ \A k \in 1..Len(all_places) : ~Contains(all_places[k][1], text_lower)}

CambridgeQuestion ==
  "Did you mean Cambridge, Massachusetts (near Boston) or somewhere else? We're currently serving the Boston/Cambridge area and NYC."

\* C5: a turn without failure on an utterance whose only location signal is
\* the bare city name "cambridge" yields the ambiguous-location marker and no
\* served city: the returned record has no location, the turn is not ready,
\* and the question asked is the Cambridge disambiguation question.
C5_BareCambridgeAmbiguous ==
  (Gathered /\ LastCall.utterance \in BareCambridge /\ LastCall.env.fault = "none") =>
    /\ record.location = None
    /\ ~result.ready_to_match
    /\ result.next_question = Some("location_ambiguous_cambridge")
    /\ result.asked = Some(CambridgeQuestion)

\* the last call was a matchAndRank call in which nothing failed
Matched == last # None /\ LastCall.call = "match" /\ LastCall.fault = "none"

\* what the filter pipeline finds for the call, and what the resolver finds
\* for its candidates
PipelineResult == matching_agent(store, clock, record, "none")

ResolverResult ==
  availability_agent(store, clock, PipelineResult.candidates, record,
                     DefaultServiceDuration, "none")

HasCandidates == PipelineResult.status = "success" /\ PipelineResult.candidate_count > 0

NoAvailabilitySummary(n) ==
  "Found " \o Str(n) \o " providers, but none have availability. Try selecting flexible timing."

\* C6: when the filter pipeline returns candidates and the resolver finds no
\* free slot for any of them, matchAndRank returns an empty ranked list and
\* the summary that n providers were found but none has availability; when
\* the pipeline returns no candidates, the list is empty and the summary is
\* not of that form for any n.
C6_NoAvailabilityDistinct ==
  Matched =>
    /\ (HasCandidates /\ ResolverResult.providers_available = 0) =>
         /\ matches.ranked_options = <<>>
         /\ matches.search_summary = NoAvailabilitySummary(PipelineResult.candidate_count)
    /\ ~HasCandidates =>
         /\ matches.ranked_options = <<>>
         /\ \A n \in 0..Len(store.services) :
              matches.search_summary # NoAvailabilitySummary(n)

\* matchAndRank has answered a call for which the pipeline finds two
\* candidates and the resolver no free slot
C6_Witness ==
  /\ Matched
  /\ HasCandidates /\ PipelineResult.candidate_count = 2
  /\ ResolverResult.status = "no_availability"
  /\ matches.search_summary = NoAvailabilitySummary(2)

Chatted == last # None /\ LastCall.call = "chat"

EndsWith(text, suffix) ==
  Len(text) >= Len(suffix) /\ SubSeq(text, Len(text) - Len(suffix) + 1, Len(text)) = suffix

TimeoutNotice ==
  "Finding matches is taking longer than expected. Please click 'See Matches' to view your results."

NoMatchNotice ==
  "I searched for matches but couldn't find any providers at the moment. You might want to try adjusting your preferences."

\* C7: the response of a ready turn whose matching phase ran into the cap of
\* 60 seconds carries no ranked results, no count and no summary, and its
\* text ends with the notice that matching is taking longer; the response of
\* a ready turn whose matching phase completed carries a result list, and if
\* the list is empty its text ends with the notice that no provider was found.
C7_TimeoutDistinct ==
  Chatted =>
    /\ LastCall.timing = "timeout" =>
         /\ response.success /\ response.ready_to_match
         /\ response.ranked_matches = None
         /\ response.total_matches_found = None
         /\ response.search_summary = None
         /\ EndsWith(response.response, TimeoutNotice)
    /\ LastCall.timing = "completes" =>
         /\ response.ranked_matches # None
         /\ response.ranked_matches = Some(<<>>) =>
              /\ EndsWith(response.response, NoMatchNotice)
              /\ ~EndsWith(response.response, TimeoutNotice)

\* the matching phase of the ready turn "today in Boston" has run into the
\* cap, and the response says so
C7_Witness ==
  /\ Chatted
  /\ LastCall.utterance = "today in Boston"
  /\ LastCall.timing = "timeout"
  /\ response.ready_to_match
  /\ response.ranked_matches = None
  /\ EndsWith(response.response, TimeoutNotice)

\* a well-formed response of gatherPreferences: a preference record, a
\* reply to the user, and a next question exactly when the turn is not ready
WellFormedGather(r) ==
  /\ DOMAIN r.extracted_preferences = DOMAIN EmptyPreferences
  /\ r.response_to_user # ""
  /\ r.ready_to_match \in BOOLEAN
  /\ r.ready_to_match <=> r.next_question = None

\* a well-formed response of matchAndRank: options ranked 1, 2, ... with a
\* provider, a price and a rating each, their count and a summary
WellFormedMatch(m) ==
  /\ \A i \in 1..Len(m.ranked_options) :
       /\ m.ranked_options[i].rank = i
       /\ m.ranked_options[i].merchant_id # ""
       /\ m.ranked_options[i].price >= 0
       /\ m.ranked_options[i].rating >= 0
  /\ m.total_options_found >= Len(m.ranked_options)
  /\ m.search_summary # ""

\* C8: no failure inside a call of gatherPreferences or matchAndRank reaches
\* the caller: whatever fails in a turn (the language model, the live
\* search, the validation, the crew's own body) or in a matching run (the
\* filter pipeline, the availability resolver, the ranking, the crew's own
\* body), the call returns a well-formed response, and a turn in which
\* something other than the language model failed is not ready.
C8_FallbackInsteadOfFailure ==
  /\ ~raised
  /\ Gathered =>
       /\ WellFormedGather(result)
       /\ LastCall.env.fault # "none" => ~result.ready_to_match
  /\ (last # None /\ LastCall.call = "match") => WellFormedMatch(matches)

\* a turn in which the crew's body failed has returned the fallback reply,
\* not ready, with the record that the caller passed
C8_Witness ==
  /\ Gathered
  /\ LastCall.env.fault = "crew"
  /\ LastCall.before.service_type = Some("haircut")
  /\ ~raised
  /\ result.response_to_user
       = "I'm having trouble processing that. Could you tell me what service you're looking for?"
  /\ result.extracted_preferences = LastCall.before
  /\ ~result.ready_to_match

\* C9: whenever both budget bounds of the preference record are non-null,
\* budget_min is at most budget_max.
C9_BudgetOrdered ==
  (record.budget_min # None /\ record.budget_max # None) =>
    record.budget_min[1] <= record.budget_max[1]

\* the business rules of the validation pass: a budget bound that is set is
\* greater than 0 and at most $1000, budget_min is at most budget_max, and
\* an urgency that is set is one of the four known values
BusinessRulesHold(prefs) ==
  /\ \A f \in {"budget_min", "budget_max"} :
       prefs[f] # None => (prefs[f][1] > 0 /\ prefs[f][1] <= 100000)
  /\ (prefs.budget_min # None /\ prefs.budget_max # None) =>
       prefs.budget_min[1] <= prefs.budget_max[1]
  /\ prefs.time_urgency # None => prefs.time_urgency[1] \in valid_urgencies

\* C10: a turn without failure whose record the readiness evaluator reports
\* ready, and whose record satisfies the business rules, is returned with
\* ready_to_match = true, whichever of urgency, date, time and constraint is
\* its time signal: the validation pass bounces a ready record only when a
\* business rule fails.
C10_BounceOnlyOnRuleFailure ==
  (/\ Gathered /\ LastCall.env.fault = "none"
   /\ readiness_detector(record).ready_to_match
   /\ BusinessRulesHold(record)) =>
    result.ready_to_match

(***************************************************************************)
(* The question of a turn that is not ready                                 *)
(***************************************************************************)

\* the requirements that a record lacks, in the order of their priority
MissingRequirements(prefs) ==
  LET absent(o) == o = None \/ o[1] = ""
  IN (IF absent(prefs.service_type) THEN <<"service_type">> ELSE <<>>)
       \o (IF ~TruthyNum(prefs.budget_min) /\ ~TruthyNum(prefs.budget_max)
             THEN <<"budget">> ELSE <<>>)
       \o (IF absent(prefs.time_urgency) /\ absent(prefs.preferred_date)
               /\ absent(prefs.preferred_time) /\ absent(prefs.time_constraint)
             THEN <<"time_info">> ELSE <<>>)
       \o (IF absent(prefs.location) THEN <<"location">> ELSE <<>>)

\* the fixed question of a requirement
QuestionTemplate(field) ==
  CASE field = "service_type" -> "What service are you looking for?"
    [] field = "budget" -> "What's your budget for this service?"
    [] field = "time_info" -> "When do you need this?"
    [] field = "location" ->
         "Where would you like to get this done? We're currently serving Boston, Cambridge (MA), and New York City."

\* the last call was a turn without failure that returned a record lacking
\* a requirement
NotReadyTurn ==
  /\ Gathered /\ LastCall.env.fault = "none" /\ ~raised
  /\ MissingRequirements(record) # <<>>

\* the last turn yielded the ambiguous-location marker
LastAmbiguous == YieldsAmbiguous(Extracted[LastCall.utterance][clock], LastCall.env)

\* matching has been started only on a result that is ready
MatchingOnlyWhenReady ==
  (last # None /\ LastCall.call = "match") => result.ready_to_match

\* C11, as claimed: on every turn whose record is not ready, the question
\* asked is the fixed template of the first missing requirement in the order
\* service_type, budget, time-info, location, the turn is not ready, and
\* matching is not started.
C11_FirstMissingAsked ==
  /\ MatchingOnlyWhenReady
  /\ NotReadyTurn =>
       /\ ~result.ready_to_match
       /\ result.next_question = Some(MissingRequirements(record)[1])
       /\ result.asked = Some(QuestionTemplate(MissingRequirements(record)[1]))

\* C11, amended: the same, except on a turn that yields the ambiguous-
\* location marker, where the question asked is the Cambridge disambiguation
\* question whatever else is missing.
C11_FirstMissingOrAmbiguity ==
  /\ MatchingOnlyWhenReady
  /\ NotReadyTurn =>
       /\ ~result.ready_to_match
       /\ IF LastAmbiguous
            THEN /\ result.next_question = Some("location_ambiguous_cambridge")
                 /\ result.asked = Some(CambridgeQuestion)
          ELSE /\ result.next_question = Some(MissingRequirements(record)[1])
               /\ result.asked = Some(QuestionTemplate(MissingRequirements(record)[1]))

\* a turn on a record with a service type has asked for the time, the
\* second requirement it lacks in the order of priority being the location
C11_Witness ==
  /\ NotReadyTurn /\ ~LastAmbiguous
  /\ MissingRequirements(record) = <<"time_info", "location">>
  /\ result.next_question = Some("time_info")
  /\ result.asked = Some("When do you need this?")

(***************************************************************************)
(* The budget filter                                                        *)
(***************************************************************************)

AppliedTool(tool) == last # None /\ LastCall.call = tool /\ output # None

\* the elements of a sequence
Elements(q) == {q[i] : i \in 1..Len(q)}

\* the price lies in the budget widened by a tenth, in decimal arithmetic;
\* an unset bound does not constrain
InWidenedBudget(budget_min, budget_max, price) ==
  /\ budget_min # None => 9 * budget_min[1] <= 10 * price
  /\ budget_max # None => 10 * price <= 11 * budget_max[1]

\* C12: the budget filter keeps a service exactly when budget_min * 0.9 <=
\* price <= budget_max * 1.1, an unset lower bound acting as 0 and an unset
\* upper bound as infinity: a price of exactly budget_max * 1.1 passes and a
\* price of budget_max * 1.11 does not.
C12_BudgetWindow ==
  AppliedTool("budget_filter") =>
    /\ Elements(output[1]) =
         {s \in Elements(input[1].services) :
            InWidenedBudget(input[1].budget_min, input[1].budget_max, s.base_price)}
    /\ \A i, j \in 1..Len(output[1]) :
         i < j => output[1][i].base_price <= output[1][j].base_price

(***************************************************************************)
(* The location stage                                                       *)
(***************************************************************************)

\* both coordinates of the user are given
CoordinatesSupplied ==
  /\ input[1].user_location # None
  /\ input[1].user_location[1].lat # None
  /\ input[1].user_location[1].lon # None

\* <<distance, rounded distance>> of a provider with coordinates from the
\* user of the last call
DistanceFromUser(provider) ==
  haversine_distance(input[1].user_location[1].lat[1], input[1].user_location[1].lon[1],
                     provider.location_lat[1], provider.location_lon[1])

Located(provider) == provider.location_lat # None /\ provider.location_lon # None

\* C13: when the user's coordinates are supplied, the location stage outputs
\* its candidates in non-decreasing order of (reported) distance and outputs
\* no candidate that is further from the user than the maximum distance.
C13_LocationStage ==
  (AppliedTool("matching_location") /\ CoordinatesSupplied) =>
    /\ \A i \in 1..Len(output[1]) :
         Located(output[1][i]) =>
           DistanceFromUser(output[1][i])[1] <= input[1].max_distance
    /\ \A i, j \in 1..Len(output[1]) :
         (i < j /\ Located(output[1][i]) /\ Located(output[1][j])) =>
           DistanceFromUser(output[1][i])[2] <= DistanceFromUser(output[1][j])[2]

(***************************************************************************)
(* The ranking                                                              *)
(***************************************************************************)

\* the overall score that the preferences of the last call give a candidate
ScoreOf(candidate) == overall_score(candidate, input[1].user_preferences.budget_max[1])

\* the candidate at place i of the input is ranked ahead of the one at place j
RankedAhead(i, j) ==
  LET a == ScoreOf(input[1].candidates[i])
      b == ScoreOf(input[1].candidates[j])
  IN a > b \/ (a = b /\ i < j)

\* the places of the input that fewer than n others are ranked ahead of
HighestRanked(n) ==
  {i \in 1..Len(input[1].candidates) :
     Cardinality({j \in 1..Len(input[1].candidates) : RankedAhead(j, i)}) < n}

\* C14: the output of the ranking is the input candidates with their scores,
\* in non-increasing order of overall score, candidates of equal score in
\* their input order, cut to the 10 highest-ranked of them.
C14_TopTenRanked ==
  (AppliedTool("ranking_agent") /\ input[1].user_preferences.budget_max # None) =>
    LET ranked_providers == output[1].ranked_providers
    IN /\ {ranked_providers[k].provider_id : k \in 1..Len(ranked_providers)}
            = HighestRanked(10)
       /\ Len(ranked_providers) = Cardinality(HighestRanked(10))
       /\ \A k \in 1..Len(ranked_providers) :
            ranked_providers[k].overall_score
              = Some(ScoreOf(input[1].candidates[ranked_providers[k].provider_id]))
       /\ \A k, m \in 1..Len(ranked_providers) :
            k < m => RankedAhead(ranked_providers[k].provider_id,
                                 ranked_providers[m].provider_id)

HasWord(word) ==
  re_search(Cat(<<<<"wb">>, Lit(word), <<"wb">>>>), Lower(input[1].text)) # None

\* the weekday that the utterance names, 0 for Monday
NamedWeekday == (CHOOSE k \in 1..7 : HasWord(days_of_week[k])) - 1

\* the days from the current date to the resolved date
ResolvedAhead == strptime(output[1].preferred_date[1]) - input[1].now.day

C17_StatedBudget ==
  AppliedTool("extract_budget") =>
    /\ output[1].budget_min # None
    /\ output[1].budget_max # None
    /\ input[1].form = "around" =>
         /\ 10 * output[1].budget_min[1] = 8 * input[1].x
         /\ 10 * output[1].budget_max[1] = 12 * input[1].x
    /\ input[1].form = "range" =>
         /\ output[1].budget_min[1] = Min(input[1].x, input[1].y)
         /\ output[1].budget_max[1] = Max(input[1].x, input[1].y)
    /\ input[1].form = "up to" =>
         /\ output[1].budget_min[1] = 0
         /\ output[1].budget_max[1] = input[1].x

\* "around $60", "$60-$30" and "up to $80" have been read
C17_Witness ==
  /\ AppliedTool("extract_budget")
  /\ \/ input[1].text = "around $60" /\ output[1].budget_min = Some(4800)
     \/ input[1].text = "$60-$30" /\ output[1].budget_min = Some(3000)
     \/ input[1].text = "up to $80" /\ output[1].budget_max = Some(8000)

\* the range of the utterance is the budget that was read
RangeTaken ==
  /\ output[1].budget_min = Some(input[1].smaller)
  /\ output[1].budget_max = Some(input[1].larger)

\* C18: a range of two numbers below 24 is not taken as the budget when a
\* time is signalled next to it, or when no currency sign or budget keyword
\* is present and the larger number is below 25; "available between 9 and 5"
\* leaves both budget bounds unset.
C18_ClockRangeNotBudget ==
  AppliedTool("extract_budget") =>
    /\ (/\ input[1].larger < 2400
        /\ input[1].timed \/ (~input[1].keyword /\ input[1].larger < 2500))
         => ~RangeTaken
    /\ input[1].text = "available between 9 and 5"
         => output[1].budget_min = None /\ output[1].budget_max = None

(***************************************************************************)
(* The slot finder                                                          *)
(***************************************************************************)

\* the slot of the preferred date that starts at the time is free
FreeAt(start) ==
  \E i \in 1..Len(input[1].available_slots) :
     /\ isoformat(input[1].available_slots[i].day) = input[1].preferred_date
     /\ input[1].available_slots[i].start = start

\* the free slots of the preferred date cover the service from the start
DurationFeasible(start) ==
  \A t \in start..(start + input[1].service_duration - 1) :
     (t - start) % SlotMinutes = 0 => FreeAt(t)

\* a service that starts at the time meets the time constraint
MeetsConstraint(start) ==
  LET preferred == minutes_of(input[1].preferred_time[1])
      end == start + input[1].service_duration
  IN CASE input[1].time_constraint[1] = "before" -> start < preferred
       [] input[1].time_constraint[1] = "after" -> start > preferred
       [] input[1].time_constraint[1] = "by" -> end <= preferred

\* C19: with a preferred time and a time constraint, every slot returned by
\* the slot finder satisfies the constraint, and every free slot of the
\* preferred date that leaves room for the service and satisfies the
\* constraint is returned.
C19_ConstrainedSlots ==
  AppliedTool("slot_finder") =>
    /\ \A k \in 1..Len(output[1]) :
         /\ output[1][k].date = input[1].preferred_date
         /\ MeetsConstraint(minutes_of(output[1][k].time))
         /\ minutes_of(output[1][k].end_time)
              = minutes_of(output[1][k].time) + input[1].service_duration
    /\ \A start \in SlotStarts :
         (DurationFeasible(start) /\ MeetsConstraint(start)) =>
           \E k \in 1..Len(output[1]) : output[1][k].time = hhmm(start)

\* a search has returned some free slots of the day and left out others
\* that have room for the service
C19_Witness ==
  /\ AppliedTool("slot_finder")
  /\ output[1] # <<>>
  /\ \E start \in SlotStarts : DurationFeasible(start) /\ ~MeetsConstraint(start)
  /\ \E start \in SlotStarts : FreeAt(start) /\ ~DurationFeasible(start)

(***************************************************************************)
(* A time signal on a record with a service type and a budget               *)
(***************************************************************************)

\* the prior record holds a service type and a budget bound and nothing else
ServiceAndBudgetOnly == input[1].current_prefs.location = None

StageNames == <<"service_type", "location", "budget", "availability", "provider_quality">>

\* what the message of a stage that came up empty begins with
StageMessages ==
  <<"No services found matching '", "No providers found within ",
    "No services found within budget $", "No providers available for time urgency: ",
    "No verified, high-quality providers found">>

\* the number of services or providers that each stage of the last run puts
\* out when it is given the output of the stage before it
StageCounts ==
  LET preferences == input[1].preferences
      services == service_filter(input[1].db, preferences.service_type[1],
                                 preferences.location)
      located == matching_location(input[1].user_location, input[1].max_distance,
                                   services)
      affordable ==
        IF TruthyNum(preferences.budget_min) \/ TruthyNum(preferences.budget_max)
          THEN budget_filter(preferences.budget_min, preferences.budget_max, located)
        ELSE located
      available == availability_filter(input[1].db, input[1].now,
                                       preferences.time_urgency, affordable)
      valid == provider_status_checker(
                 input[1].db, {available[i].merchant_id : i \in 1..Len(available)})
  IN <<Len(services), Len(located), Len(affordable), Len(available), Cardinality(valid)>>

\* the first stage of the last run whose output is empty, 0 if there is none
FirstEmptyStage ==
  IF \A i \in 1..5 : StageCounts[i] > 0 THEN 0
  ELSE CHOOSE i \in 1..5 : StageCounts[i] = 0 /\ \A k \in 1..(i - 1) : StageCounts[k] > 0

\* C21: the stages of a matching run for a service type are recorded in the
\* order service, location, budget, availability, quality, and every count
\* that a stage records is that of its filter applied to the output of the
\* stage before it.  The first stage whose output is empty ends the run: it
\* is the last stage recorded, the result has status no_results, no
\* candidate and the message of that stage, and the crew answers with no
\* option and that message.  A run without an empty stage records all five
\* stages and succeeds.
C21_FirstEmptyStageEnds ==
  (AppliedTool("run_matching_and_ranking") /\ TruthyStr(input[1].preferences.service_type)) =>
    LET matching_result == output[1].matching_result
        ran == matching_result.filters_applied
    IN /\ Len(ran) \in 1..5
       /\ \A i \in 1..Len(ran) :
             /\ ran[i].filter = StageNames[i]
             /\ ran[i].count # None => ran[i].count[1] = StageCounts[i]
       /\ FirstEmptyStage # 0 =>
            /\ Len(ran) = FirstEmptyStage
            /\ matching_result.status = "no_results"
            /\ matching_result.candidates = <<>>
            /\ matching_result.candidate_count = 0
            /\ StartsWith(matching_result.message, StageMessages[FirstEmptyStage])
            /\ output[1].response.ranked_options = <<>>
            /\ output[1].response.total_options_found = 0
            /\ output[1].response.search_summary = matching_result.message
       /\ FirstEmptyStage = 0 =>
            /\ Len(ran) = 5
            /\ matching_result.status = "success"
            /\ matching_result.candidates # <<>>

\* the last run ended at the given stage
EndedAt(stage) ==
  /\ AppliedTool("run_matching_and_ranking")
  /\ TruthyStr(input[1].preferences.service_type)
  /\ FirstEmptyStage = stage
  /\ Len(output[1].matching_result.filters_applied) = stage
  /\ output[1].matching_result.status = "no_results"

\* a run with a user location has ended at the location stage, after the
\* service stage had found services
C21_Witness ==
  /\ EndedAt(2)
  /\ StageCounts[1] > 0
  /\ output[1].matching_result.message = "No providers found within 0.4 miles"

\* the record that the crew returned in the last turn of the endpoint
ReturnedRecord ==
  gather_preferences(Extracted[LastCall.utterance][clock], LastCall.env,
                     LastCall.before)[1].extracted_preferences

\* C22: after a turn of the chat endpoint that the crew answered, the record
\* that the next turn of the session loads equals, field by field, the
\* record that the crew returned in this turn.
C22_SessionKeepsRecord ==
  (Chatted /\ response.success) => session_preferences(session) = ReturnedRecord

\* the day lies in the window that the time signals of the record imply: a
\* preferred date with a constraint comes first, then the urgency
InImpliedWindow(day) ==
  IF TruthyStr(record.preferred_date) /\ record.time_constraint = Some("before")
    THEN day < strptime(record.preferred_date[1])
  ELSE IF TruthyStr(record.preferred_date) /\ record.time_constraint = Some("by")
    THEN day <= strptime(record.preferred_date[1])
  ELSE IF TruthyStr(record.preferred_date) /\ record.time_constraint = Some("after")
    THEN day > strptime(record.preferred_date[1])
  ELSE IF record.time_urgency \in {Some("ASAP"), Some("today")}
    THEN day = clock.day
  ELSE IF record.time_urgency = Some("week")
    THEN clock.day <= day /\ day <= clock.day + 7
  ELSE TRUE

\* the days of the slots that the resolver offers
OfferedDays ==
  {strptime(resolved.candidates_with_slots[i].available_slots[j].date) :
     <<i, j>> \in {t \in (1..Len(resolved.candidates_with_slots)) \X (1..10) :
                     t[2] <= Len(resolved.candidates_with_slots[t[1]].available_slots)}}

\* C23: every slot that the resolver offers for the candidates of the
\* pipeline lies on a day of the window that the time signals of the record
\* imply: today for the urgency ASAP or today, today to today + 7 for week,
\* the days before, up to, or after a preferred date with the constraint
\* before, by, or after.
C23_SlotsInImpliedWindow ==
  Resolved => \A day \in OfferedDays : InImpliedWindow(day)

\* the answer of the conversation agent in the last turn, and the validation
\* of its record
TurnResult ==
  conversation_agent(Extracted[input[1].utterance][input[1].now], input[1].env,
                     input[1].current_preferences)

TurnValidation == qa_agent(TurnResult.extracted_preferences)

\* the validation pass has rejected a record that was reported ready
RejectedReady ==
  /\ AppliedTool("run_preference_gathering")
  /\ TurnResult.ready_to_match
  /\ ~TurnValidation.ready_to_proceed

\* the words by which a clarification names the field that failed: the
\* budget for a broken budget rule or an anomalous budget, the time for a
\* missing or invalid urgency
FailingFieldWords ==
  LET prefs == TurnResult.extracted_preferences
  IN (IF \/ OrNum(prefs.budget_min, prefs.budget_max) = None
         \/ anomaly_detector(prefs) # None
         \/ \E i \in 1..Len(business_rule_violations(prefs)) :
               Contains("udget", business_rule_violations(prefs)[i])
        THEN {"budget"} ELSE {})
       \cup (IF \/ prefs.time_urgency = None
                \/ \E i \in 1..Len(business_rule_violations(prefs)) :
                      Contains("urgency", business_rule_violations(prefs)[i])
               THEN {"when", "time"} ELSE {})

\* C24: when the validation pass rejects a record that the readiness
\* evaluator reported ready, the result of the turn, from either crew, is
\* not ready, asks about a field that failed, returns the record with the
\* fields extracted in the turn, and is not the fallback that asks for the
\* service type.
C24_RejectionClarifies ==
  RejectedReady =>
    \A r \in {output[1].run, output[1].gathering} :
       /\ ~r.ready_to_match
       /\ r.extracted_preferences = TurnResult.extracted_preferences
       /\ r.next_question # Some("service_type")
       /\ \E word \in FailingFieldWords : Contains(word, Lower(r.response_to_user))

\* 100 * (0.40 * rating / 5 + 0.30 * priceScore + 0.20 * min(slotCount / 3, 1)
\* + 0.10 * distanceScore), in hundredths of a point, for a candidate whose
\* distance is unknown; a price is within a budget_max that is set
WeightedScore(candidate, budget_max) ==
  Round(3 * 80 * candidate.rating
          + 3 * (IF budget_max # None /\ candidate.price <= budget_max[1] THEN 3000 ELSE 0)
          + 2000 * Min(candidate.slots_count, 3)
          + 3 * 500,
        3)

\* C25: every provider that the ranking agent returns carries an overall
\* score, which is the weighted sum of its rating, price, availability and
\* distance scores and lies between 0 and 100, whether or not the record
\* holds a budget_max.
C25_OverallScoreFormula ==
  (last # None /\ LastCall.call = "ranking_agent" /\ output # None) =>
    \A i \in 1..Len(output[1].ranked_providers) :
       LET candidate == output[1].ranked_providers[i]
       IN /\ candidate.overall_score # None
          /\ candidate.overall_score[1]
               = WeightedScore(candidate, input[1].user_preferences.budget_max)
          /\ candidate.overall_score[1] \in 0..10000

\* the pairs of a ranked option of the last run and the candidate of the
\* filter pipeline that it presents
RankedCandidates ==
  {<<output[1].response.ranked_options[i], output[1].matching_result.candidates[k]>> :
     <<i, k>> \in
       {t \in (1..Len(output[1].response.ranked_options))
                \X (1..Len(output[1].matching_result.candidates)) :
          /\ output[1].response.ranked_options[t[1]].merchant_id
               = output[1].matching_result.candidates[t[2]].provider_id
          /\ output[1].response.ranked_options[t[1]].service_name
               = output[1].matching_result.candidates[t[2]].service_name}}

\* the relevance of an option whose distance score is max(1 - d / 10, 0), d
\* in hundredths of a mile, in hundredths
RelevanceAtDistance(option, d, budget_max) ==
  Round(Round(240 * option.rating
                + (IF option.price <= budget_max THEN 9000 ELSE 0)
                + 2000 * Min(Len(option.available_times), 3)
                + Max(3000 - 3 * d, 0),
              3),
        100)

\* C26: a ranked option of a candidate for which the location filter
\* computed a distance d is scored with the distance score max(1 - d/10, 0)
\* and reports d, to a tenth of a mile, as its distance.
C26_DistanceScored ==
  (AppliedTool("run_matching_and_ranking") /\ input[1].preferences.budget_max # None) =>
    \A pair \in RankedCandidates :
       pair[2].distance # None =>
         /\ pair[1].distance = Some(Round(pair[2].distance[1], 10))
         /\ pair[1].relevance_score
              = RelevanceAtDistance(pair[1], pair[2].distance[1],
                                    input[1].preferences.budget_max[1])

\* the slots that the resolver offers in the last call, each with its
\* candidate, its day and its start and end in minutes
OfferedSlots ==
  {[candidate |-> resolved.candidates_with_slots[t[1]],
    day |-> strptime(resolved.candidates_with_slots[t[1]].available_slots[t[2]].date),
    start |-> minutes_of(resolved.candidates_with_slots[t[1]].available_slots[t[2]].time),
    end |-> minutes_of(resolved.candidates_with_slots[t[1]].available_slots[t[2]].end_time)] :
     t \in {t \in (1..Len(resolved.candidates_with_slots)) \X (1..10) :
              t[2] <= Len(resolved.candidates_with_slots[t[1]].available_slots)}}

\* the length in minutes of the service of a candidate in the store
ServiceLength(candidate) ==
  store.services[CHOOSE i \in 1..Len(store.services) :
                   store.services[i].id = candidate.service_id].duration_minutes

\* the 30-minute unit of a provider that starts at the given minute of a day
\* lies in the calendar and meets no confirmed or pending booking
UnitFree(provider_id, day, start) ==
  /\ WorkStart <= start /\ start + SlotMinutes <= WorkEnd
  /\ \A i \in 1..Len(store.bookings) :
        (/\ store.bookings[i].merchant_id = provider_id
         /\ store.bookings[i].status \in {"confirmed", "pending"}) =>
          \/ 1440 * day + start + SlotMinutes <= BookingStart(store.bookings[i])
          \/ 1440 * day + start >= BookingEnd(store.bookings[i])

\* C27: every slot that the resolver offers, called as the crew calls it,
\* starts a run of consecutive free 30-minute units that covers the length
\* of the service of its candidate.
C27_SlotCoversService ==
  (Resolved /\ LastCall.service_duration = DefaultServiceDuration) =>
    \A o \in OfferedSlots :
      \A k \in 0..((ServiceLength(o.candidate) - 1) \div SlotMinutes) :
         UnitFree(o.candidate.provider_id, o.day, o.start + SlotMinutes * k)

\* the working hours of the provider of an offered slot on the day of the slot
HoursOf(offered) == working_hours_checker(store, offered.candidate.provider_id)[weekday(offered.day)]

\* C28: every slot that the resolver offers for a provider lies on a day on
\* which the provider is open, starts at or after the opening time of that
\* weekday and ends at or before its closing time, under the stored hours of
\* the provider or the default hours when none are stored
C28_SlotsWithinWorkingHours ==
  Resolved =>
    \A o \in OfferedSlots :
      /\ HoursOf(o) # None
      /\ HoursOf(o)[1][1] <= o.start
      /\ o.end <= HoursOf(o)[1][2]

\* C29: an utterance that names no place, city, neighbourhood or state has no
\* location extracted from it, and the location of the record after the turn
\* is the location of the record before the turn
C29_NoPlaceNoLocation ==
  AppliedTool("conversation_turn") =>
    /\ output[1].location = None
    /\ output[1].turn.extracted_preferences.location = input[1].current_preferences.location

\* C30: every slot that the resolver offers starts at or after the time of
\* the request: no slot on an earlier day, and on the day of the request no
\* slot before the current time
C30_NoSlotInThePast ==
  Resolved =>
    \A o \in OfferedSlots :
      \/ o.day > clock.day
      \/ o.day = clock.day /\ o.start >= 60 * clock.hour

====
